---- MODULE Spec2Model ----
(***************************************************************************)
(* Karina-Chat: the session-state machine behind the Streamlit pages.      *)
(*                                                                         *)
(* One browser session (st.session_state) is modelled together with the    *)
(* three Supabase tables the pages read and write (fall_persistenzen,      *)
(* fallbeispiele, feedback_gpt).  Every action is one script run of a page *)
(* (a visit, a form submit or a button click), executed top to bottom as   *)
(* Streamlit does.  Texts are sequences of tokens; " " and "\n" are the    *)
(* whitespace tokens that str.strip() removes.                             *)
(*                                                                         *)
(* Karina_Chat_2.py ends its live part with zeige_instruktionen_vor_start, *)
(* which always calls st.stop(); the statements after line 294 of that     *)
(* file never run and are not modelled.  pages/21_Admin.py imports names   *)
(* that module/fall_config.py no longer defines and passes a path to       *)
(* lade_fallbeispiele and speichere_fallbeispiel, which take none; its     *)
(* handlers are modelled block by block as they are written.               *)
(***************************************************************************)
EXTENDS Integers, Sequences, FiniteSets, TLC

\* ---------------------------------------------------------------- bounds
MaxFragen == 1      \* user questions per case in the anamnesis chat
MaxSonder == 1      \* special examinations per case
MaxRunden == 2      \* highest diagnostics round (Termin) per case
MaxZeilen == 1      \* rows the table feedback_gpt can take
MaxZeit == 3        \* hours the clock can advance
MaxTokens == 14     \* token total up to which the form of the final diagnosis is submitted
MaxFaelle == 3      \* rows the table fallbeispiele can take

VARIABLES
    ss,             \* st.session_state: function from the keys present to their values
    fix,            \* table fall_persistenzen: fix_key -> row
    faelle,         \* table fallbeispiele: id -> row
    feedback_gpt,   \* table feedback_gpt: ID -> [evaluiert |-> BOOLEAN]
    now,            \* wall clock in hours
    sent,           \* requests sent to the OpenAI chat-completions API by the last script run
    mcp,            \* calls of the AMBOSS MCP endpoint made by the last script run
    download        \* whether the last script run offered the download button

vars == <<ss, fix, faelle, feedback_gpt, now, sent, mcp, download>>

\* ------------------------------------------------------------------ texts
WS == {" ", "\n"}

RECURSIVE LStrip(_)
LStrip(t) == IF t # <<>> /\ Head(t) \in WS THEN LStrip(Tail(t)) ELSE t

RECURSIVE RStrip(_)
RStrip(t) == IF t # <<>> /\ t[Len(t)] \in WS THEN RStrip(SubSeq(t, 1, Len(t) - 1)) ELSE t

\* str.strip()
Strip(t) == RStrip(LStrip(t))

\* len(): the number of characters of a text
RECURSIVE Zeichen(_)
Zeichen(t) == IF t = <<>> THEN 0 ELSE Len(Head(t)) + Zeichen(Tail(t))

\* text[:n], cut at the last token that still fits
RECURSIVE Kuerze(_, _)
Kuerze(t, n) ==
    IF t = <<>> \/ Len(Head(t)) > n THEN <<>>
    ELSE <<Head(t)>> \o Kuerze(Tail(t), n - Len(Head(t)))

\* what a student can type into a text field
Eingaben == {<<" ">>, <<"a">>}

\* what a student asks the patient
Fragen == {<<"a">>}

\* what the language model can answer
GPTAntworten == {<<"g">>}

\* ---------------------------------------------------------- session state
None == "None"

Has(s, k) == k \in DOMAIN s

Get(s, k, d) == IF k \in DOMAIN s THEN s[k] ELSE d

Put(s, k, v) == (k :> v) @@ s

Pop(s, k) == [x \in DOMAIN s \ {k} |-> s[x]]

SetDefault(s, k, v) == IF k \in DOMAIN s THEN s ELSE Put(s, k, v)

PopAll(s, ks) == [x \in DOMAIN s \ ks |-> s[x]]

EmptyState == [x \in {} |-> None]

\* module/offline.py
is_offline(s) == Get(s, "offline_mode", FALSE)

\* ----------------------------------------------------------- token counter
Usage == [prompt |-> 1, completion |-> 1, total |-> 2]

init_token_counters(s) ==
    SetDefault(s, "token_sums", [prompt |-> 0, completion |-> 0, total |-> 0])

add_usage(s, u) ==
    LET s1 == init_token_counters(s)
        t == s1["token_sums"]
    IN Put(s1, "token_sums", [prompt |-> t.prompt + u.prompt,
                               completion |-> t.completion + u.completion,
                               total |-> t.total + u.total])

\* one request to client.chat.completions.create
Request(op, s, prompt) == [op |-> op, offline |-> is_offline(s), prompt |-> prompt]

\* ------------------------------------------------- table fall_persistenzen
KeinZeitpunkt == 0 - 1

_persist_fixation(f, fix_key, is_active, value_text, value_number, t) ==
    Put(f, fix_key, [is_active |-> is_active, value_text |-> value_text,
                     value_number |-> value_number,
                     fixed_at |-> IF is_active THEN t ELSE KeinZeitpunkt])

get_feedback_mode_fix_state(f) ==
    IF ~Has(f, "feedback_mode") \/ ~f["feedback_mode"].is_active
    THEN <<FALSE, "">>
    ELSE <<f["feedback_mode"].value_text # "", f["feedback_mode"].value_text>>

set_feedback_mode_fix(f, mode, t) == _persist_fixation(f, "feedback_mode", TRUE, mode, 0, t)

clear_feedback_mode_fix(f, t) == _persist_fixation(f, "feedback_mode", FALSE, "", 0, t)

get_fall_fix_state(f) ==
    IF ~Has(f, "scenario") \/ ~f["scenario"].is_active
    THEN <<FALSE, "">>
    ELSE <<f["scenario"].value_text # "", f["scenario"].value_text>>

set_fixed_scenario(f, szenario, t) == _persist_fixation(f, "scenario", TRUE, szenario, 0, t)

clear_fixed_scenario(f, t) == _persist_fixation(f, "scenario", FALSE, "", 0, t)

AMBOSS_FETCH_ALWAYS == "always"
AMBOSS_FETCH_IF_EMPTY == "if_empty"
AMBOSS_FETCH_RANDOM == "random"
_DEFAULT_AMBOSS_MODE == AMBOSS_FETCH_RANDOM

\* probabilities in percent
_DEFAULT_AMBOSS_RANDOM_PROBABILITY == 20

_sanitize_fetch_mode(mode) ==
    IF mode \notin {AMBOSS_FETCH_ALWAYS, AMBOSS_FETCH_IF_EMPTY, AMBOSS_FETCH_RANDOM}
    THEN AMBOSS_FETCH_RANDOM ELSE mode

_sanitize_probability(p) == IF p < 0 THEN 0 ELSE IF p > 100 THEN 100 ELSE p

get_amboss_fetch_preferences(f) ==
    IF ~Has(f, "amboss_mode")
    THEN <<_DEFAULT_AMBOSS_MODE, _DEFAULT_AMBOSS_RANDOM_PROBABILITY>>
    ELSE <<_sanitize_fetch_mode(f["amboss_mode"].value_text),
           _sanitize_probability(f["amboss_mode"].value_number)>>

\* ----------------------------------------------------------- feedback mode
FEEDBACK_MODE_CHATGPT == "ChatGPT"
FEEDBACK_MODE_AMBOSS_CHATGPT == "Amboss_ChatGPT"
SESSION_KEY_EFFECTIVE_MODE == "feedback_mode"
SESSION_KEY_OVERRIDE == "feedback_mode_override"
_AVAILABLE_MODES == {FEEDBACK_MODE_CHATGPT, FEEDBACK_MODE_AMBOSS_CHATGPT}

_is_valid_mode(value) == value \in _AVAILABLE_MODES

\* a variant that asks the persisted fixation before the override
determine_feedback_mode_fixierung_zuerst(s, f, t) ==
    LET override == Get(s, SESSION_KEY_OVERRIDE, None)
        persisted == get_feedback_mode_fix_state(f)
        current == Get(s, SESSION_KEY_EFFECTIVE_MODE, None)
        wahl == IF persisted[1] /\ _is_valid_mode(persisted[2]) THEN {persisted[2]}
                ELSE IF _is_valid_mode(override) THEN {override}
                ELSE IF _is_valid_mode(current) THEN {current}
                ELSE _AVAILABLE_MODES
    IN { [ss |-> Put(s, SESSION_KEY_EFFECTIVE_MODE, mode), fix |-> f, mode |-> mode] :
           mode \in wahl }

\* every outcome of one call: the new session state, the new table and the returned mode
determine_feedback_mode(s, f, t) ==
    LET override == Get(s, SESSION_KEY_OVERRIDE, None)
        persisted == get_feedback_mode_fix_state(f)
        persisted_active == persisted[1]
        persisted_mode == persisted[2]
        current == Get(s, SESSION_KEY_EFFECTIVE_MODE, None)
        f1 == IF ~_is_valid_mode(override) /\ persisted_active /\ ~_is_valid_mode(persisted_mode)
              THEN clear_feedback_mode_fix(f, t) ELSE f
        wahl == IF _is_valid_mode(override) THEN {override}
                ELSE IF persisted_active /\ _is_valid_mode(persisted_mode) THEN {persisted_mode}
                ELSE IF _is_valid_mode(current) THEN {current}
                ELSE _AVAILABLE_MODES
    IN { [ss |-> Put(s, SESSION_KEY_EFFECTIVE_MODE, mode), fix |-> f1, mode |-> mode] :
           mode \in wahl }

\* a variant that keeps the stored mode
reset_random_mode_ohne_wirkung(s) == s

reset_random_mode(s) == Pop(s, SESSION_KEY_EFFECTIVE_MODE)

\* mode = None removes the override; an unknown mode raises ValueError (no change)
set_mode_override(s, mode) ==
    IF mode = None THEN Pop(s, SESSION_KEY_OVERRIDE)
    ELSE IF ~_is_valid_mode(mode) THEN s
    ELSE Put(s, SESSION_KEY_OVERRIDE, mode)

\* ------------------------------------------------------ table fallbeispiele
KeinAlter == 0 - 1

\* a summary long enough to count as reliable, and the program constant it is measured with
_MIN_AMBOSS_SUMMARY_CHARS == 80
LangeZusammenfassung ==
    <<"Leitsymptome, Diagnostik und Therapie des Krankheitsbildes in Stichpunkten (AMBOSS)">>
KurzeZusammenfassung == <<"k">>

\* the rows of the table at the start: one case without and one with a stored summary
Falltabelle ==
    [id \in {1, 2} |->
        IF id = 1
        THEN [id |-> 1, Szenario |-> "Appendizitis", Amboss_Input |-> <<>>, Alter |-> 40]
        ELSE [id |-> 2, Szenario |-> "Migraene", Amboss_Input |-> <<" ">> \o KurzeZusammenfassung,
              Alter |-> KeinAlter]]

LeereTabelle == [id \in {} |-> None]

\* APIFehler stands for an exception raised by the model client
APIFehler == <<"!">>

_extract_amboss_input(fall) == Strip(fall.Amboss_Input)

\* the set of possible decisions (the random mode rolls a die)
_should_refresh_amboss_input(stored_value, mode, probability) ==
    IF stored_value = <<>> THEN {TRUE}
    ELSE IF mode = AMBOSS_FETCH_ALWAYS THEN {TRUE}
    ELSE IF mode = AMBOSS_FETCH_IF_EMPTY THEN {FALSE}
    ELSE IF probability <= 0 THEN {FALSE}
    ELSE IF probability >= 100 THEN {TRUE}
    ELSE {TRUE, FALSE}

\* the rows _waehle_fall can return; the empty set stands for the ValueError
_waehle_fall(df, szenario) ==
    IF szenario # None /\ szenario # ""
    THEN LET gefundene == {i \in DOMAIN df : df[i].Szenario = szenario}
         IN IF gefundene = {} THEN {}
            ELSE {df[CHOOSE i \in gefundene : \A j \in gefundene : i <= j]}
    ELSE {df[i] : i \in DOMAIN df}

\* module/amboss_preprocessing.py
clear_cached_summary(s) == PopAll(s, {"amboss_payload_summary", "amboss_payload_summary_digest"})

_clear_amboss_session_cache(s) ==
    Pop(clear_cached_summary(PopAll(s, {"amboss_result", "amboss_result_inner", "amboss_result_raw",
                                        "amboss_result_unvollstaendig", "amboss_result_sicherung"})),
        "amboss_summary_source")

_protokolliere_amboss_status(s, status, quelle) ==
    Put(s, "amboss_persist_info", [status |-> status, quelle |-> quelle])

\* module/MCP_Amboss.py: the payload of a query, and the session state after a call
AmbossPayload(query) == <<"AMBOSS", query>>

call_amboss_search(s, query, ok) ==
    IF ok THEN Put(Put(s, "amboss_input_mcp", query), "amboss_result", AmbossPayload(query))
    ELSE Put(s, "amboss_input_mcp", query)

\* ensure_amboss_summary: llm is the model's answer (or APIFehler).
\* Result: the session state, the requests sent, the returned summary (None for no
\* summary) and whether the call raised.
ensure_amboss_summary(s, diagnose_szenario, patient_age, llm) ==
    LET payload == Get(s, "amboss_result", <<>>)
        digest == <<payload, diagnose_szenario, patient_age>>
    IN IF payload = <<>>
       THEN [ss |-> clear_cached_summary(s), sent |-> <<>>, summary |-> <<>>, raised |-> FALSE]
       ELSE IF Get(s, "amboss_payload_summary_digest", <<>>) = digest
       THEN [ss |-> s, sent |-> <<>>, summary |-> Get(s, "amboss_payload_summary", <<>>),
             raised |-> FALSE]
       ELSE LET s1 == init_token_counters(s)
                req == <<Request("amboss_summary", s, <<"Verdichte AMBOSS">> \o payload)>>
            IN IF llm = APIFehler
               THEN [ss |-> s1, sent |-> req, summary |-> <<>>, raised |-> TRUE]
               ELSE LET s2 == add_usage(s1, Usage)
                        summary == Strip(llm)
                    IN [ss |-> Put(Put(s2, "amboss_payload_summary", summary),
                                   "amboss_payload_summary_digest", digest),
                        sent |-> req, summary |-> summary, raised |-> FALSE]

\* _persist_amboss_input: the table after the update (unchanged when it fails)
_persist_amboss_input(tab, row_id, value, ok) ==
    IF value # <<>> /\ ok /\ row_id \in DOMAIN tab
    THEN [tab EXCEPT ![row_id].Amboss_Input = value]
    ELSE tab

\* the random draws and the environment's answers of one fallauswahl_prompt call
Auswahlumstaende ==
    LET gelungen == [fetch_wurf |-> TRUE, mcp_ok |-> TRUE, llm |-> LangeZusammenfassung,
                     persist_ok |-> TRUE]
    IN {gelungen, [gelungen EXCEPT !.fetch_wurf = FALSE], [gelungen EXCEPT !.mcp_ok = FALSE],
        [gelungen EXCEPT !.llm = APIFehler]}

\* the decision of _should_refresh_amboss_input when the die shows wurf
_fetch_required(stored_value, prefs, wurf) ==
    LET moeglich == _should_refresh_amboss_input(stored_value, prefs[1], prefs[2])
    IN IF wurf \in moeglich THEN wurf ELSE CHOOSE b \in moeglich : TRUE

\* the age handed to the summarisation
patient_age_for_summary(s) ==
    IF Get(s, "patient_age", KeinAlter) # KeinAlter THEN s["patient_age"]
    ELSE Get(s, "patient_alter_basis", KeinAlter)

\* the branches that follow the MCP query: e is the result of ensure_amboss_summary,
\* nichts is the outcome in which nothing is summarised
_amboss_ergebnis(e, nichts, tab, fall, u, szenario, fetch_required, fetch_successful, alter) ==
    LET client == Get(nichts.ss, "openai_client", None)
        stored_amboss_input == nichts.summary_text
    IN IF fetch_successful /\ client # None /\ szenario # "" /\ alter # KeinAlter
       THEN IF e.raised
            THEN [nichts EXCEPT !.ss = e.ss, !.sent = e.sent,
                                !.status = "fehler", !.quelle = "mcp"]
            ELSE IF e.summary # <<>>
            THEN [ss |-> Put(Put(e.ss, "amboss_summary_source", "mcp"),
                             "amboss_payload_summary", Strip(e.summary)),
                  tab |-> _persist_amboss_input(tab, fall.id, Strip(e.summary), u.persist_ok),
                  sent |-> e.sent,
                  summary_text |-> Strip(e.summary),
                  status |-> IF u.persist_ok /\ fall.id \in DOMAIN tab
                             THEN "gespeichert" ELSE "fehler",
                  quelle |-> "mcp"]
            ELSE [nichts EXCEPT !.ss = e.ss, !.sent = e.sent,
                                !.status = "leer", !.quelle = "mcp"]
       ELSE IF fetch_successful /\ (client = None \/ alter = KeinAlter)
       THEN [nichts EXCEPT !.status = "fehler", !.quelle = "mcp"]
       ELSE IF ~fetch_required /\ stored_amboss_input # <<>>
       THEN [nichts EXCEPT
                !.ss = Put(Put(clear_cached_summary(nichts.ss), "amboss_payload_summary",
                               stored_amboss_input), "amboss_summary_source", "supabase"),
                !.status = "uebernommen", !.quelle = "supabase"]
       ELSE IF fetch_required /\ szenario = ""
       THEN [nichts EXCEPT !.status = "fehler", !.quelle = "keine"]
       ELSE IF fetch_required /\ ~fetch_successful
       THEN [nichts EXCEPT !.status = "fehler", !.quelle = "mcp"]
       ELSE nichts

\* the fallback to the stored summary and the clearing of an empty one
_amboss_fallback(z, summary_text, fetch_required, fetch_successful) ==
    IF summary_text # <<>> /\ fetch_required /\ ~fetch_successful
    THEN [z EXCEPT
             !.ss = Put(Put(clear_cached_summary(z.ss), "amboss_payload_summary",
                            summary_text), "amboss_summary_source", "supabase_fallback"),
             !.status = IF z.status # "gespeichert" THEN "fallback" ELSE z.status,
             !.quelle = "supabase"]
    ELSE IF summary_text = <<>>
    THEN [z EXCEPT
             !.ss = Pop(clear_cached_summary(z.ss), "amboss_summary_source"),
             !.status = IF z.status = None THEN "leer" ELSE z.status,
             !.quelle = IF z.status = None THEN "keine" ELSE z.quelle]
    ELSE z

\* the status record written at the end of fallauswahl_prompt
_amboss_abschluss(y, anfragen) ==
    [ss |-> _protokolliere_amboss_status(
                y.ss,
                IF y.status = None THEN "unveraendert" ELSE y.status,
                IF y.status = None THEN Get(y.ss, "amboss_summary_source", "keine")
                ELSE y.quelle),
     faelle |-> y.tab,
     sent |-> y.sent,
     mcp |-> anfragen]

\* the AMBOSS part of fallauswahl_prompt: s2 is the session after the MCP query
_amboss_aktualisieren(s2, tab, fall, u, szenario, fetch_required, versucht) ==
    LET nichts == [ss |-> s2, tab |-> tab, sent |-> <<>>,
                   summary_text |-> _extract_amboss_input(fall),
                   status |-> None, quelle |-> None]
        z == _amboss_ergebnis(
                 ensure_amboss_summary(s2, szenario, patient_age_for_summary(s2), u.llm),
                 nichts, tab, fall, u, szenario, fetch_required, versucht /\ u.mcp_ok,
                 patient_age_for_summary(s2))
    IN _amboss_abschluss(
           _amboss_fallback(z, Strip(z.summary_text), fetch_required, versucht /\ u.mcp_ok),
           IF versucht THEN <<szenario>> ELSE <<>>)

\* the part of fallauswahl_prompt that follows the selection of the row fall
fallauswahl_uebernehmen(s, f, tab, fall, u) ==
    LET s1 == Put(Put(Put(Put(Put(s, "diagnose_szenario", fall.Szenario),
                              "diagnose_features", <<"Beschreibung", fall.Szenario>>),
                          "koerper_befund_tip", <<"Tip", fall.Szenario>>),
                      "patient_alter_basis", fall.Alter),
                  "patient_gender", "w")
        fetch_required == _fetch_required(_extract_amboss_input(fall),
                                          get_amboss_fetch_preferences(f), u.fetch_wurf)
        versucht == fall.Szenario # "" /\ fetch_required
    IN _amboss_aktualisieren(
           IF versucht THEN call_amboss_search(s1, fall.Szenario, u.mcp_ok)
           ELSE _clear_amboss_session_cache(s1),
           tab, fall, u, fall.Szenario, fetch_required, versucht)

\* every outcome of fallauswahl_prompt(df, szenario); tab is the table in Supabase
fallauswahl_prompt(s, f, tab, df, szenario) ==
    IF DOMAIN df = {} \/ _waehle_fall(df, szenario) = {}
    THEN {[ss |-> _protokolliere_amboss_status(s, "fehler", "keine"),
           faelle |-> tab, sent |-> <<>>, mcp |-> <<>>]}
    ELSE {fallauswahl_uebernehmen(s, f, tab, fall, u) :
             fall \in _waehle_fall(df, szenario), u \in Auswahlumstaende}

\* ------------------------------------------------- case data in the session
get_behavior_fix_state(f) ==
    IF ~Has(f, "behavior") \/ ~f["behavior"].is_active
    THEN <<FALSE, "">>
    ELSE <<f["behavior"].value_text # "", f["behavior"].value_text>>

clear_fixed_behavior(f, t) == _persist_fixation(f, "behavior", FALSE, "", 0, t)

_VERHALTENSOPTIONEN == {"knapp", "redselig", "aengstlich", "wissbegierig", "verharmlosend"}

\* the behaviours random.choice is let to pick here
ZufallsVerhalten == {"knapp"}

\* the adjustment random.randint(-5, 5) is let to pick here, and the age drawn without a basis
Zufallsanpassung == 0
ZufallsAlter == 20
Mindestalter == 16

Max2(a, b) == IF a >= b THEN a ELSE b

\* every outcome of prepare_fall_session_state: the session state and the table
prepare_fall_session_state(s, f, t) ==
    IF ~Has(s, "diagnose_szenario") THEN {[ss |-> s, fix |-> f]}
    ELSE
    LET s1 == SetDefault(s, "patient_name", <<"Anna", "Muster">>)
        basisalter == Get(s1, "patient_alter_basis", KeinAlter)
        s2 == SetDefault(s1, "patient_age",
                         IF basisalter # KeinAlter
                         THEN Max2(Mindestalter, basisalter + Zufallsanpassung)
                         ELSE Max2(Mindestalter, ZufallsAlter))
        s3 == SetDefault(s2, "patient_job", <<"Lehrerin">>)
        behavior == get_behavior_fix_state(f)
        fest == behavior[1] /\ behavior[2] \in _VERHALTENSOPTIONEN
        f1 == IF ~fest /\ behavior[1] THEN clear_fixed_behavior(f, t) ELSE f
    IN { [ss |-> Put(Put(Put(Put(s3, "patient_verhalten_memo", v),
                             "patient_verhalten", <<"Verhalten", v>>),
                         "patient_hauptanweisung", <<"Du darfst die Diagnose nicht nennen.">>),
                     "SYSTEM_PROMPT",
                     <<"Patientensimulation", s3["diagnose_szenario"]>> \o s3["patient_name"]),
          fix |-> f1] :
          v \in IF fest THEN {behavior[2]} ELSE ZufallsVerhalten }

\* a variant of the list that leaves the examination report in the session
_FALL_SESSION_KEYS_ohne_befund ==
    {"diagnose_szenario", "SYSTEM_PROMPT", "patient_name", "messages", "final_feedback"}

_FALL_SESSION_KEYS ==
    {"diagnose_szenario", "diagnose_features", "koerper_befund_tip", "patient_alter_basis",
     "patient_gender", "patient_name", "patient_age", "patient_job", "patient_verhalten_memo",
     "patient_verhalten", "patient_hauptanweisung", "SYSTEM_PROMPT", "startzeit",
     "start_untersuchung", "untersuchung_done", "diagnostik_aktiv", "diagnostik_runden_gesamt",
     "messages", "koerper_befund", "user_ddx2", "user_diagnostics", "befunde",
     "diagnostik_eingaben", "gpt_befunde", "diagnostik_eingaben_kumuliert",
     "gpt_befunde_kumuliert", "final_diagnose", "therapie_vorschlag", "final_feedback",
     "feedback_prompt_final", "feedback_row_id", "student_evaluation_done", "token_sums"}

_FALL_SESSION_PREFIXES == {"diagnostik_runde_", "befunde_runde_"}

\* the keys of the session state that start with one of the prefixes
RundenKey(prefix, i) == prefix \o ToString(i)

MitPraefix == {RundenKey(p, i) : p \in _FALL_SESSION_PREFIXES, i \in 0..(MaxRunden + 2)}

reset_fall_session_state(s) ==
    [x \in {k \in DOMAIN s : k \notin _FALL_SESSION_KEYS /\ k \notin MitPraefix} |-> s[x]]

\* ---------------------------------------------------------------- start page
initialisiere_session_state(s) ==
    SetDefault(SetDefault(SetDefault(SetDefault(SetDefault(SetDefault(SetDefault(SetDefault(s,
        "final_feedback", <<>>), "feedback_prompt_final", <<>>), "final_diagnose", <<>>),
        "offline_mode", FALSE), "koerper_befund_generating", FALSE), "befund_generating", FALSE),
        "befund_generierung_gescheitert", FALSE), "fall_vorbereitung_abgeschlossen", FALSE)

\* lade_fallbeispiele: the rows of the table, or an empty frame when Supabase fails
lade_fallbeispiele(tab, ok) == IF ok THEN tab ELSE LeereTabelle

\* a variant of the selection that asks the fixation before the admin selection
_fall_vorbereiten_fixierung_zuerst(s2, f, tab, t, szenario_df, admin_szenario, fixiert) ==
    LET verfuegbare_szenarien == {szenario_df[i].Szenario : i \in DOMAIN szenario_df}
        gewuenscht == IF fixiert[1] /\ fixiert[2] \in verfuegbare_szenarien THEN fixiert[2]
                      ELSE IF admin_szenario # "" THEN admin_szenario
                      ELSE None
    IN UNION { { [ss |-> Put(p.ss, "fall_vorbereitung_abgeschlossen", TRUE), fix |-> p.fix,
                  faelle |-> a.faelle, sent |-> a.sent, mcp |-> a.mcp] :
                 p \in prepare_fall_session_state(a.ss, f, t) } :
               a \in fallauswahl_prompt(s2, f, tab, szenario_df, gewuenscht) }

\* the selection of the case in the loader callback: admin_szenario is the scenario an
\* administrator chose for this session, fixiert the persisted scenario fixation
_fall_vorbereiten(s2, f, tab, t, szenario_df, admin_szenario, fixiert) ==
    LET fixed == fixiert[1]
        fixed_szenario == fixiert[2]
        verfuegbare_szenarien == {szenario_df[i].Szenario : i \in DOMAIN szenario_df}
        aufheben == admin_szenario = "" /\ fixed /\ fixed_szenario # ""
                    /\ fixed_szenario \notin verfuegbare_szenarien
        f1 == IF aufheben THEN clear_fixed_scenario(f, t) ELSE f
        gewuenscht == IF admin_szenario # "" THEN admin_szenario
                      ELSE IF fixed /\ fixed_szenario # "" /\ ~aufheben THEN fixed_szenario
                      ELSE None
        auswahl ==
            IF admin_szenario # "" \/ (fixed /\ fixed_szenario # "")
               \/ ~Has(s2, "diagnose_szenario")
            THEN fallauswahl_prompt(s2, f1, tab, szenario_df, gewuenscht)
            ELSE {[ss |-> s2, faelle |-> tab, sent |-> <<>>, mcp |-> <<>>]}
    IN UNION { { [ss |-> Put(p.ss, "fall_vorbereitung_abgeschlossen", TRUE), fix |-> p.fix,
                  faelle |-> a.faelle, sent |-> a.sent, mcp |-> a.mcp] :
                 p \in prepare_fall_session_state(a.ss, f1, t) } : a \in auswahl }

\* every outcome of the loader callback of the start page
fuehre_fall_vorbereitung_durch(s, f, tab, t, laden_ok) ==
    IF Get(s, "fall_vorbereitung_abgeschlossen", FALSE)
    THEN {[ss |-> s, fix |-> f, faelle |-> tab, sent |-> <<>>, mcp |-> <<>>]}
    ELSE
    LET szenario_df == IF Has(s, "fallliste_df") THEN s["fallliste_df"]
                       ELSE lade_fallbeispiele(tab, laden_ok)
        s1 == Put(s, "fallliste_df", szenario_df)
    IN IF DOMAIN szenario_df = {}
       THEN {[ss |-> Put(s1, "fall_vorbereitung_abgeschlossen", TRUE), fix |-> f,
              faelle |-> tab, sent |-> <<>>, mcp |-> <<>>]}
       ELSE
       _fall_vorbereiten(Pop(s1, "admin_selected_szenario"), f, tab, t, szenario_df,
                         Get(s1, "admin_selected_szenario", ""), get_fall_fix_state(f))

\* module/startinfo.py: the instructions and the loader; the run always ends in st.stop()
zeige_instruktionen_vor_start(s, f, tab, t, laden_ok) ==
    LET s1 == SetDefault(SetDefault(s, "instruktion_bestätigt", FALSE),
                         "instruktion_loader_fertig", FALSE)
    IN IF ~s1["instruktion_loader_fertig"]
       THEN { [r EXCEPT !.ss = Put(r.ss, "instruktion_loader_fertig", TRUE)] :
                r \in fuehre_fall_vorbereitung_durch(s1, f, tab, t, laden_ok) }
       ELSE {[ss |-> s1, fix |-> f, faelle |-> tab, sent |-> <<>>, mcp |-> <<>>]}

\* ------------------------------------------------------------- script runs
\* A script run starts from the session and the tables as they are and has sent nothing yet.
\* Every page below maps such a record to the set of records the run can end in.
Lauf == [ss |-> ss, fix |-> fix, faelle |-> faelle, feedback_gpt |-> feedback_gpt,
         sent |-> <<>>, mcp |-> <<>>, download |-> FALSE]

\* one script run of Karina_Chat_2.py (also the target of redirect_to_start_page)
StartseiteLauf(w, t, laden_ok) ==
    UNION { { [w EXCEPT !.ss = r.ss, !.fix = r.fix, !.faelle = r.faelle,
                        !.sent = w.sent \o r.sent, !.mcp = w.mcp \o r.mcp] :
                r \in zeige_instruktionen_vor_start(d.ss, d.fix, w.faelle, t, laden_ok) } :
            d \in determine_feedback_mode(
                      initialisiere_session_state(Put(w.ss, "openai_client", "client")),
                      w.fix, t) }

\* module/navigation.py
redirect_to_start_page(w, t, laden_ok) ==
    StartseiteLauf([w EXCEPT !.ss = Put(w.ss, "start_warning", "Fall nicht geladen")], t, laden_ok)

\* the pattern shared by the generating functions: count, request, count the usage, strip.
\* llm is the model's answer or APIFehler (an exception raised by the client).
chat_completion(s, op, prompt, llm) ==
    LET s1 == init_token_counters(s)
        req == <<Request(op, s, prompt)>>
    IN IF llm = APIFehler
       THEN [ss |-> s1, sent |-> req, text |-> <<>>, raised |-> TRUE]
       ELSE [ss |-> add_usage(s1, Usage), sent |-> req, text |-> Strip(llm), raised |-> FALSE]

ohne_anfrage(s, text) == [ss |-> s, sent |-> <<>>, text |-> text, raised |-> FALSE]

\* ------------------------------------------------------------------ anamnesis
user_fragen(s) ==
    Cardinality({i \in DOMAIN Get(s, "messages", <<>>) : s["messages"][i].role = "user"})

fragen_gestellt(s) == user_fragen(s) > 0

get_offline_patient_reply(patient_name) == <<"(Offline)">> \o patient_name \o <<"antwortet ruhig">>

\* one script run of pages/1_Anamnese.py; user_input = <<>> is a run without a submitted question
AnamneseLauf(w, user_input, llm) ==
    IF ~Has(w.ss, "SYSTEM_PROMPT") \/ ~Has(w.ss, "patient_name") THEN {w}
    ELSE
    LET s1 == SetDefault(w.ss, "openai_client", "client")
        s2 == SetDefault(s1, "startzeit", "gesetzt")
        s3 == SetDefault(s2, "messages",
                         <<[role |-> "system", content |-> s2["SYSTEM_PROMPT"]],
                           [role |-> "assistant", content |-> <<"Guten Tag">>]>>)
        gefragt == Put(s3, "messages",
                       Append(s3["messages"], [role |-> "user", content |-> user_input]))
        antwort(text) == Put(gefragt, "messages",
                             Append(gefragt["messages"], [role |-> "assistant", content |-> text]))
    IN IF user_input = <<>> THEN {[w EXCEPT !.ss = s3]}
       ELSE IF is_offline(gefragt)
       THEN {[w EXCEPT !.ss = antwort(get_offline_patient_reply(Get(gefragt, "patient_name", <<>>)))]}
       ELSE {[w EXCEPT !.ss = IF llm = APIFehler THEN gefragt ELSE antwort(llm),
                       !.sent = w.sent \o <<Request("anamnese", gefragt, <<"messages">>)>>]}

\* ---------------------------------------------------------------- examination
\* str.join over a sequence of texts
RECURSIVE Join(_, _)
Join(teile, sep) ==
    IF teile = <<>> THEN <<>>
    ELSE IF Len(teile) = 1 THEN teile[1]
    ELSE teile[1] \o sep \o Join(Tail(teile), sep)

\* the non-empty texts of a sequence of texts, in order
RECURSIVE NichtLeere(_)
NichtLeere(teile) ==
    IF teile = <<>> THEN <<>>
    ELSE IF teile[1] = <<>> THEN NichtLeere(Tail(teile))
    ELSE <<teile[1]>> \o NichtLeere(Tail(teile))

Absatz == <<"\n", "\n">>

get_offline_koerperbefund == <<"Offline-Modus", "standardisierter Befund">>

get_offline_sonderuntersuchung(wunsch_text) ==
    <<"Offline-Modus", "Anforderung:">>
    \o (IF Strip(wunsch_text) # <<>> THEN Strip(wunsch_text) ELSE <<"(kein Wunschtext eingegeben)">>)

generiere_koerperbefund(s, llm) ==
    IF is_offline(s) THEN ohne_anfrage(s, get_offline_koerperbefund)
    ELSE chat_completion(s, "koerperbefund", <<"Erstelle einen Untersuchungsbefund">>, llm)

generiere_sonderuntersuchung(s, sonderwunsch, llm) ==
    IF is_offline(s) THEN ohne_anfrage(s, get_offline_sonderuntersuchung(sonderwunsch))
    ELSE chat_completion(s, "sonderuntersuchung",
                         <<"Zusatzuntersuchung">> \o sonderwunsch, llm)

aktualisiere_befundanzeige(s) ==
    LET basis == Strip(Get(s, "koerper_befund_basis", <<>>))
        liste == Get(s, "sonderuntersuchungen", <<>>)
        zusatzbloecke == [i \in DOMAIN liste |-> Strip(liste[i].anzeige)]
    IN Put(s, "koerper_befund", Strip(Join(NichtLeere(<<basis>> \o zusatzbloecke), Absatz)))

\* the section of the diagnostics export for the index-th special examination
Sonderabschnitt(index, eintrag) ==
    Strip(<<"### Gesondert angeforderte Untersuchung", ToString(index), "\n", "Anforderung:">>
          \o (IF Strip(eintrag.anforderung) # <<>> THEN Strip(eintrag.anforderung)
              ELSE <<"(keine Angabe)">>)
          \o <<"\n", "Ergebnis:", "\n">>
          \o (IF Strip(eintrag.diagnostik) # <<>> THEN Strip(eintrag.diagnostik)
              ELSE <<"(kein Ergebnis hinterlegt)">>))

aktualisiere_sonderdiagnostik_prefix(s) ==
    LET sonderliste == Get(s, "sonderuntersuchungen", <<>>)
        basis == Strip(Get(s, "diagnostik_eingaben_basis", <<>>))
        sondertext == Strip(Join([i \in DOMAIN sonderliste |-> Sonderabschnitt(i, sonderliste[i])],
                                 Absatz))
    IN IF sonderliste = <<>>
       THEN LET s1 == Pop(s, "sonderdiagnostik_text")
            IN IF basis # <<>> THEN Put(s1, "diagnostik_eingaben_kumuliert", basis)
               ELSE IF Has(s1, "diagnostik_eingaben_kumuliert")
               THEN Put(s1, "diagnostik_eingaben_kumuliert", <<>>)
               ELSE s1
       ELSE LET s1 == Put(s, "sonderdiagnostik_text", sondertext)
            IN IF basis # <<>>
               THEN Put(s1, "diagnostik_eingaben_kumuliert", Strip(sondertext \o Absatz \o basis))
               ELSE Put(s1, "diagnostik_eingaben_kumuliert", sondertext)

\* lines 195-244 and 251-296: one attempt to create the examination report;
\* rerun tells whether the attempt ended in st.rerun()
untersuchung_erzeugen(w, llm) ==
    LET g == generiere_koerperbefund(Put(w.ss, "koerper_befund_generating", TRUE), llm)
    IN IF g.raised
       THEN [w |-> [w EXCEPT !.ss = Put(g.ss, "koerper_befund_generating", FALSE),
                             !.sent = w.sent \o g.sent],
             rerun |-> FALSE]
       ELSE [w |-> [w EXCEPT
                      !.ss = Put(aktualisiere_sonderdiagnostik_prefix(aktualisiere_befundanzeige(
                                     Put(Put(g.ss, "koerper_befund_basis", g.text),
                                         "sonderuntersuchungen", <<>>))),
                                 "koerper_befund_generating", FALSE),
                      !.sent = w.sent \o g.sent],
             rerun |-> TRUE]

\* the head of pages/2_Koerperliche_Untersuchung.py up to the precondition check
untersuchung_kopf(s) ==
    LET s1 == SetDefault(SetDefault(SetDefault(s, "koerper_befund_generating", FALSE),
                                    "sonder_untersuchung_generating", FALSE),
                         "sonderuntersuchung_input", <<>>)
        s2 == IF Get(s1, "sonderuntersuchung_input_leeren", FALSE)
              THEN Put(Pop(s1, "sonderuntersuchung_input_leeren"), "sonderuntersuchung_input", <<>>)
              ELSE Pop(s1, "sonderuntersuchung_input_leeren")
        s3 == SetDefault(s2, "sonderuntersuchungen", <<>>)
    IN IF Has(s3, "koerper_befund") /\ ~Has(s3, "koerper_befund_basis")
       THEN Put(s3, "koerper_befund_basis", s3["koerper_befund"])
       ELSE s3

fall_geladen_untersuchung(s) ==
    {"diagnose_szenario", "patient_name", "patient_age", "patient_job", "diagnose_features"}
        \subseteq DOMAIN s

\* lines 129-190: the button "Anforderung absenden"
sonderuntersuchung_anfordern(w, sonder_input, llm) ==
    IF Strip(sonder_input) = <<>> THEN [w |-> w, rerun |-> FALSE]
    ELSE
    LET g == generiere_sonderuntersuchung(Put(w.ss, "sonder_untersuchung_generating", TRUE),
                                          sonder_input, llm)
        neuer_block == [anforderung |-> Strip(sonder_input), diagnostik |-> g.text,
                        anzeige |-> g.text]
        s1 == Put(g.ss, "sonderuntersuchungen", Append(g.ss["sonderuntersuchungen"], neuer_block))
    IN IF g.raised
       THEN [w |-> [w EXCEPT !.ss = Put(g.ss, "sonder_untersuchung_generating", FALSE),
                             !.sent = w.sent \o g.sent],
             rerun |-> FALSE]
       ELSE [w |-> [w EXCEPT
                      !.ss = Put(Put(aktualisiere_sonderdiagnostik_prefix(
                                         aktualisiere_befundanzeige(s1)),
                                     "sonder_untersuchung_generating", FALSE),
                                 "sonderuntersuchung_input_leeren", TRUE),
                      !.sent = w.sent \o g.sent],
             rerun |-> TRUE]

\* lines 307-308, reached by every run that did not end in a rerun or a redirect
untersuchung_fuss(r) ==
    IF r.rerun THEN r
    ELSE [r EXCEPT !.w.ss = SetDefault(r.w.ss, "untersuchung_done", TRUE)]

\* one script run of pages/2_Koerperliche_Untersuchung.py.
\* klick: "kein" (a visit), "untersuchung" or "sonder" (the button pressed)
UntersuchungEinmal(w, t, laden_ok, klick, sonder_input, llm1, llm2) ==
    LET s1 == untersuchung_kopf(IF klick = "sonder"
                                THEN Put(w.ss, "sonderuntersuchung_input", sonder_input)
                                ELSE w.ss)
        s2 == SetDefault(s1, "start_untersuchung", "gesetzt")
        w2 == [w EXCEPT !.ss = s2]
        w3 == [w EXCEPT !.ss = aktualisiere_befundanzeige(s2)]
        auto == IF Get(s2, "koerper_befund_generating", FALSE)
                THEN [w |-> w2, rerun |-> FALSE]
                ELSE untersuchung_erzeugen(w2, llm1)
    IN IF ~fall_geladen_untersuchung(s1)
       THEN {[w |-> x, rerun |-> FALSE] :
                x \in redirect_to_start_page([w EXCEPT !.ss = s1], t, laden_ok)}
       ELSE IF Has(s2, "koerper_befund")
       THEN IF klick = "sonder"
            THEN {untersuchung_fuss(sonderuntersuchung_anfordern(w3, sonder_input, llm1))}
            ELSE {untersuchung_fuss([w |-> w3, rerun |-> FALSE])}
       ELSE IF fragen_gestellt(s2)
       THEN IF auto.rerun \/ klick # "untersuchung" THEN {untersuchung_fuss(auto)}
            ELSE {untersuchung_fuss(untersuchung_erzeugen(auto.w, llm2))}
       ELSE {untersuchung_fuss([w |-> w2, rerun |-> FALSE])}

\* the run and, after st.rerun(), the run that shows the page again
UntersuchungLauf(w, t, laden_ok, klick, sonder_input, llm1, llm2) ==
    UNION { IF r.rerun
            THEN {x.w : x \in UntersuchungEinmal(r.w, t, laden_ok, "kein", <<>>, APIFehler, APIFehler)}
            ELSE {r.w} :
            r \in UntersuchungEinmal(w, t, laden_ok, klick, sonder_input, llm1, llm2) }

\* ---------------------------------------------------------------- diagnostics
get_offline_sprachcheck(text_input) == text_input

\* sprachmodul.py: an exception of the client is caught and the input returned
sprach_check(s, text_input, llm) ==
    IF Strip(text_input) = <<>> THEN ohne_anfrage(s, <<>>)
    ELSE IF is_offline(s) THEN ohne_anfrage(s, get_offline_sprachcheck(text_input))
    ELSE LET c == chat_completion(s, "sprach_check", <<"Bitte überprüfe">> \o text_input, llm)
         IN IF c.raised THEN [c EXCEPT !.text = text_input, !.raised = FALSE] ELSE c

get_offline_befund(neue_diagnostik) ==
    <<"Offline-Modus", "Angeforderte Untersuchungen:">>
    \o (IF Strip(neue_diagnostik) # <<>> THEN Strip(neue_diagnostik)
        ELSE <<"(keine zusätzlichen Angaben gemacht)">>)

generiere_befund(s, neue_diagnostik, llm) ==
    IF is_offline(s) THEN ohne_anfrage(s, get_offline_befund(neue_diagnostik))
    ELSE chat_completion(s, "befund", <<"Erstelle Befunde">> \o neue_diagnostik, llm)

Termin(i) == <<"### Termin", ToString(i), "\n">>

Trenner == <<"\n", "---", "\n">>

diagnostik_runden_gesamt(s) == Get(s, "diagnostik_runden_gesamt", 1)

aktualisiere_kumulative_befunde_page(s, neuer_befund) ==
    LET gesamt == diagnostik_runden_gesamt(s)
        spaetere == [i \in 1..(gesamt - 1) |->
                        LET text == Strip(Get(s, RundenKey("befunde_runde_", i + 1), <<>>))
                        IN IF text # <<>> THEN Termin(i + 1) \o text ELSE <<>>]
        passagen == <<Strip(Termin(1) \o neuer_befund)>> \o NichtLeere(spaetere)
    IN Put(Put(Put(s, "befunde", neuer_befund), "gpt_befunde", neuer_befund),
           "gpt_befunde_kumuliert", Strip(Join(passagen, Trenner)))

\* a variant of the summary that also shows the round after the last completed one
aktualisiere_diagnostik_zusammenfassung_eine_mehr(s) ==
    LET erster_diag == Get(s, "user_diagnostics", <<>>)
        erster_befund == Get(s, "befunde", <<>>)
        gesamt == diagnostik_runden_gesamt(s) + 1
        abschnitt(i, text) == Trenner \o Termin(i) \o text \o <<"\n">>
        eingaben == [i \in 1..gesamt |->
                        IF i = 1
                        THEN IF erster_diag # <<>> \/ erster_befund # <<>>
                             THEN abschnitt(1, erster_diag) ELSE <<>>
                        ELSE IF Get(s, RundenKey("diagnostik_runde_", i), <<>>) # <<>>
                             THEN abschnitt(i, s[RundenKey("diagnostik_runde_", i)]) ELSE <<>>]
        befunde == [i \in 1..gesamt |->
                        IF i = 1
                        THEN IF erster_diag # <<>> \/ erster_befund # <<>>
                             THEN abschnitt(1, erster_befund) ELSE <<>>
                        ELSE IF Get(s, RundenKey("befunde_runde_", i), <<>>) # <<>>
                             THEN abschnitt(i, s[RundenKey("befunde_runde_", i)]) ELSE <<>>]
    IN Put(Put(s, "diagnostik_eingaben_kumuliert", Strip(Join(eingaben, <<>>))),
           "gpt_befunde_kumuliert", Strip(Join(befunde, <<>>)))

\* diagnostikmodul.py
aktualisiere_diagnostik_zusammenfassung(s) ==
    LET erster_diag == Get(s, "user_diagnostics", <<>>)
        erster_befund == Get(s, "befunde", <<>>)
        gesamt == diagnostik_runden_gesamt(s)
        abschnitt(i, text) == Trenner \o Termin(i) \o text \o <<"\n">>
        eingaben == [i \in 1..gesamt |->
                        IF i = 1
                        THEN IF erster_diag # <<>> \/ erster_befund # <<>>
                             THEN abschnitt(1, erster_diag) ELSE <<>>
                        ELSE IF Get(s, RundenKey("diagnostik_runde_", i), <<>>) # <<>>
                             THEN abschnitt(i, s[RundenKey("diagnostik_runde_", i)]) ELSE <<>>]
        befunde == [i \in 1..gesamt |->
                        IF i = 1
                        THEN IF erster_diag # <<>> \/ erster_befund # <<>>
                             THEN abschnitt(1, erster_befund) ELSE <<>>
                        ELSE IF Get(s, RundenKey("befunde_runde_", i), <<>>) # <<>>
                             THEN abschnitt(i, s[RundenKey("befunde_runde_", i)]) ELSE <<>>]
    IN Put(Put(s, "diagnostik_eingaben_kumuliert", Strip(Join(eingaben, <<>>))),
           "gpt_befunde_kumuliert", Strip(Join(befunde, <<>>)))

\* with weitere_diagnostik_aktiv=False the routine shows no form and only summarises
diagnostik_und_befunde_routine(s) == aktualisiere_diagnostik_zusammenfassung(s)

\* pages/4_Diagnostik_und_Befunde.py; rerun tells whether the call ended in st.rerun()
starte_automatische_befundgenerierung_page(w, llm) ==
    LET s == w.ss
        client == Get(s, "openai_client", None)
        diagnostik_text == Strip(Get(s, "user_diagnostics", <<>>))
        ddx_text == Strip(Get(s, "user_ddx2", <<>>))
        g == generiere_befund(Pop(Put(s, "befund_generating", TRUE), "befund_generierungsfehler"),
                              diagnostik_text, llm)
    IN IF \/ Get(s, "befund_generating", FALSE)
          \/ Get(s, "befunde", <<>>) # <<>>
          \/ Get(s, "befund_generierung_gescheitert", FALSE)
          \/ client = None
          \/ diagnostik_text = <<>> \/ ddx_text = <<>>
       THEN [w |-> w, rerun |-> FALSE]
       ELSE IF g.raised
       THEN [w |-> [w EXCEPT !.ss = Put(Put(Put(g.ss, "befund_generierung_gescheitert", TRUE),
                                            "befund_generierungsfehler", "APIFehler"),
                                        "befund_generating", FALSE),
                             !.sent = w.sent \o g.sent],
             rerun |-> FALSE]
       ELSE [w |-> [w EXCEPT !.ss = Put(Put(aktualisiere_kumulative_befunde_page(g.ss, g.text),
                                            "befund_generierung_gescheitert", FALSE),
                                        "befund_generating", FALSE),
                             !.sent = w.sent \o g.sent],
             rerun |-> TRUE]

\* The sections of pages/4_Diagnostik_und_Befunde.py work on a record r with the run so far
\* (w), whether it has ended (ende) and whether it ended in st.rerun() (rerun).
Weiter(w) == [w |-> w, ende |-> FALSE, rerun |-> FALSE]

NachAufruf(a) == [w |-> a.w, ende |-> a.rerun, rerun |-> a.rerun]

\* lines 74-96: the form for differential diagnoses and diagnostics, and the automatic start
diagnostik_formular(r, klick, ddx_input2, diag_input2, llm_sprach, llm_befund) ==
    IF r.ende \/ ~Has(r.w.ss, "koerper_befund") THEN r
    ELSE
    LET c1 == sprach_check(r.w.ss, ddx_input2, llm_sprach)
        c2 == sprach_check(Put(c1.ss, "user_ddx2", c1.text), diag_input2, llm_sprach)
        gespeichert == [r.w EXCEPT !.ss = Put(c2.ss, "user_diagnostics", c2.text),
                                   !.sent = r.w.sent \o c1.sent \o c2.sent]
        a == IF ~Has(r.w.ss, "user_ddx2") /\ klick = "form"
             THEN NachAufruf(starte_automatische_befundgenerierung_page(gespeichert, llm_befund))
             ELSE r
    IN IF a.ende THEN a
       ELSE NachAufruf(starte_automatische_befundgenerierung_page(a.w, llm_befund))

fallback_sichtbar(s) ==
    /\ Has(s, "koerper_befund") /\ Has(s, "user_diagnostics") /\ Has(s, "user_ddx2")
    /\ ~Has(s, "befunde")
    /\ Get(s, "befund_generierung_gescheitert", FALSE)

\* lines 101-150: the button "Befunde generieren lassen"
befund_fallback(r, klick, llm_befund) ==
    IF r.ende \/ klick # "fallback" \/ ~fallback_sichtbar(r.w.ss) THEN r
    ELSE
    LET g == generiere_befund(Put(r.w.ss, "befund_generating", TRUE),
                              r.w.ss["user_diagnostics"], llm_befund)
    IN IF g.raised
       THEN [r EXCEPT !.w.ss = Put(g.ss, "befund_generating", FALSE),
                      !.w.sent = r.w.sent \o g.sent]
       ELSE [w |-> [r.w EXCEPT
                      !.ss = Put(Pop(Put(aktualisiere_kumulative_befunde_page(g.ss, g.text),
                                         "befund_generierung_gescheitert", FALSE),
                                     "befund_generierungsfehler"),
                                 "befund_generating", FALSE),
                      !.sent = r.w.sent \o g.sent],
             ende |-> TRUE, rerun |-> TRUE]

\* lines 153-178: the summary of the later appointments
weitere_termine(r) ==
    IF r.ende \/ Strip(Get(r.w.ss, "final_diagnose", <<>>)) # <<>> THEN r
    ELSE IF \/ ~Has(r.w.ss, "diagnostik_eingaben") \/ ~Has(r.w.ss, "gpt_befunde")
            \/ Get(r.w.ss, "diagnostik_aktiv", FALSE)
    THEN LET s1 == diagnostik_und_befunde_routine(r.w.ss)
         IN [r EXCEPT !.w.ss = Put(Put(s1, "diagnostik_eingaben",
                                       s1["diagnostik_eingaben_kumuliert"]),
                                   "gpt_befunde", s1["gpt_befunde_kumuliert"])]
    ELSE r

termin_formular_sichtbar(s) ==
    /\ Get(s, "diagnostik_aktiv", FALSE)
    /\ ~Has(s, RundenKey("diagnostik_runde_", diagnostik_runden_gesamt(s) + 1))

\* a variant of the form that counts the appointment before its findings are there
neuer_termin_formular_zaehlt_vorab(r, klick, eingabe, llm_befund) ==
    IF r.ende \/ klick # "termin" \/ ~termin_formular_sichtbar(r.w.ss) \/ Strip(eingabe) = <<>>
    THEN r
    ELSE
    LET neuer_termin == diagnostik_runden_gesamt(r.w.ss) + 1
        neue_diagnostik == Strip(eingabe)
        s1 == Put(Put(r.w.ss, RundenKey("diagnostik_runde_", neuer_termin), neue_diagnostik),
                  "diagnostik_runden_gesamt", neuer_termin)
        g == generiere_befund(s1, neue_diagnostik, llm_befund)
    IN IF g.raised
       THEN [w |-> [r.w EXCEPT !.ss = g.ss, !.sent = r.w.sent \o g.sent],
             ende |-> TRUE, rerun |-> FALSE]
       ELSE [w |-> [r.w EXCEPT
                      !.ss = Put(Put(g.ss, RundenKey("befunde_runde_", neuer_termin), g.text),
                                 "diagnostik_aktiv", FALSE),
                      !.sent = r.w.sent \o g.sent],
             ende |-> TRUE, rerun |-> TRUE]

\* lines 181-212: the form of the additional appointment; an exception of the client is not
\* caught here and ends the run
neuer_termin_formular(r, klick, eingabe, llm_befund) ==
    IF r.ende \/ klick # "termin" \/ ~termin_formular_sichtbar(r.w.ss) \/ Strip(eingabe) = <<>>
    THEN r
    ELSE
    LET neuer_termin == diagnostik_runden_gesamt(r.w.ss) + 1
        neue_diagnostik == Strip(eingabe)
        s1 == Put(r.w.ss, RundenKey("diagnostik_runde_", neuer_termin), neue_diagnostik)
        g == generiere_befund(s1, neue_diagnostik, llm_befund)
    IN IF g.raised
       THEN [w |-> [r.w EXCEPT !.ss = g.ss, !.sent = r.w.sent \o g.sent],
             ende |-> TRUE, rerun |-> FALSE]
       ELSE [w |-> [r.w EXCEPT
                      !.ss = Put(Put(Put(g.ss, RundenKey("befunde_runde_", neuer_termin), g.text),
                                     "diagnostik_runden_gesamt", neuer_termin),
                                 "diagnostik_aktiv", FALSE),
                      !.sent = r.w.sent \o g.sent],
             ende |-> TRUE, rerun |-> TRUE]

weitere_diagnostik_sichtbar(s) ==
    /\ ~Get(s, "diagnostik_aktiv", FALSE)
    /\ (Has(s, "befunde") \/ diagnostik_runden_gesamt(s) >= 2)

\* lines 215-221: the button "Weitere Diagnostik anfordern"
weitere_diagnostik_button(r, klick) ==
    IF r.ende \/ klick # "weitere" \/ ~weitere_diagnostik_sichtbar(r.w.ss) THEN r
    ELSE [w |-> [r.w EXCEPT !.ss = Put(r.w.ss, "diagnostik_aktiv", TRUE)],
          ende |-> TRUE, rerun |-> TRUE]

\* one script run of pages/4_Diagnostik_und_Befunde.py
DiagnostikEinmal(w, klick, eingabe1, eingabe2, llm_sprach, llm_befund) ==
    LET s1 == SetDefault(SetDefault(w.ss, "befund_generating", FALSE),
                         "befund_generierung_gescheitert", FALSE)
    IN weitere_diagnostik_button(
         neuer_termin_formular(
           weitere_termine(
             befund_fallback(
               diagnostik_formular(Weiter([w EXCEPT !.ss = s1]), klick, eingabe1, eingabe2,
                                   llm_sprach, llm_befund),
               klick, llm_befund)),
           klick, eingabe1, llm_befund),
         klick)

\* the run and, after st.rerun(), the runs that show the page again
DiagnostikLauf(w, klick, eingabe1, eingabe2, llm_sprach, llm_befund) ==
    LET r1 == DiagnostikEinmal(w, klick, eingabe1, eingabe2, llm_sprach, llm_befund)
        r2 == DiagnostikEinmal(r1.w, "kein", <<>>, <<>>, APIFehler, llm_befund)
    IN IF r1.rerun THEN r2.w ELSE r1.w

\* -------------------------------------------------------- diagnosis and therapy
diagnose_vollstaendig(s) ==
    /\ Strip(Get(s, "final_diagnose", <<>>)) # <<>>
    /\ Strip(Get(s, "therapie_vorschlag", <<>>)) # <<>>

\* one script run of pages/5_Diagnose_und_Therapie.py; abgeschickt: the form was submitted
DiagnoseTherapieLauf(w, abgeschickt, input_diag, input_therapie, llm_sprach) ==
    IF ~Has(w.ss, "befunde") \/ diagnose_vollstaendig(w.ss) \/ ~abgeschickt THEN w
    ELSE LET c1 == sprach_check(w.ss, input_diag, llm_sprach)
             c2 == sprach_check(Put(c1.ss, "final_diagnose", c1.text), input_therapie, llm_sprach)
         IN [w EXCEPT !.ss = Put(c2.ss, "therapie_vorschlag", c2.text),
                      !.sent = w.sent \o c1.sent \o c2.sent]

\* ------------------------------------------------------------------- feedback
_MAX_AMBOSS_RAW_SNIPPET == 400

AMBOSS_UEBERSCHRIFT == "Zusätzliche Fachinformationen (AMBOSS):"

_build_amboss_context(s) ==
    LET summary_clean == Strip(Get(s, "amboss_payload_summary", <<>>))
        raw_payload == Get(s, "amboss_result", <<>>)
    IN IF Zeichen(summary_clean) >= _MIN_AMBOSS_SUMMARY_CHARS THEN summary_clean
       ELSE IF summary_clean # <<>>
       THEN <<"Hinweis: Die AMBOSS-Zusammenfassung ist unerwartet kurz.">> \o summary_clean
       ELSE IF raw_payload # <<>>
       THEN <<"Hinweis: Keine AMBOSS-Zusammenfassung verfügbar.">>
            \o Kuerze(raw_payload, _MAX_AMBOSS_RAW_SNIPPET)
       ELSE <<"Hinweis: Für dieses Feedback liegt aktuell keine AMBOSS-Zusammenfassung vor.">>

get_offline_feedback(diagnose_szenario) ==
    <<"Offline-Modus", "kein automatisches GPT-Feedback verfügbar.", diagnose_szenario>>

user_verlauf(s) ==
    LET m == Get(s, "messages", <<>>)
    IN Join([i \in DOMAIN m |-> IF m[i].role = "user" THEN m[i].content ELSE <<>>], <<>>)

\* a variant that appends the AMBOSS section in every mode
feedback_prompt_immer_amboss(s, feedback_mode) ==
    <<"Feedback", Get(s, "diagnose_szenario", "")>>
    \o user_verlauf(s)
    \o <<AMBOSS_UEBERSCHRIFT>> \o _build_amboss_context(s)

\* the prompt of the final feedback for the mode feedback_mode
feedback_prompt(s, feedback_mode) ==
    LET amboss_context == IF feedback_mode = FEEDBACK_MODE_AMBOSS_CHATGPT
                          THEN _build_amboss_context(s) ELSE <<>>
    IN <<"Feedback", Get(s, "diagnose_szenario", "")>>
       \o user_verlauf(s)
       \o Get(s, "koerper_befund", <<>>) \o Get(s, "gpt_befunde_kumuliert", <<>>)
       \o Get(s, "user_ddx2", <<>>) \o Get(s, "diagnostik_eingaben_kumuliert", <<>>)
       \o Get(s, "final_diagnose", <<>>) \o Get(s, "therapie_vorschlag", <<>>)
       \o <<ToString(diagnostik_runden_gesamt(s))>>
       \o (IF amboss_context # <<>> THEN <<AMBOSS_UEBERSCHRIFT>> \o amboss_context ELSE <<>>)

\* every outcome of feedbackmodul.feedback_erzeugen: the run, the text and whether it raised.
\* The answer of the model is returned as it is, without strip().
feedback_erzeugen(w, t, llm) ==
    { LET s1 == init_token_counters(d.ss)
          req == <<Request("feedback", s1, feedback_prompt(s1, d.mode))>>
          w1 == [w EXCEPT !.fix = d.fix]
      IN IF is_offline(d.ss)
         THEN [w |-> [w1 EXCEPT !.ss = d.ss],
               text |-> get_offline_feedback(Get(d.ss, "diagnose_szenario", "")),
               raised |-> FALSE]
         ELSE IF llm = APIFehler
         THEN [w |-> [w1 EXCEPT !.ss = s1, !.sent = w.sent \o req], text |-> <<>>,
               raised |-> TRUE]
         ELSE [w |-> [w1 EXCEPT !.ss = add_usage(s1, Usage), !.sent = w.sent \o req],
               text |-> llm, raised |-> FALSE] :
      d \in determine_feedback_mode(w.ss, w.fix, t) }

\* module/gpt_feedback.py: the feedback is inserted as a new row of feedback_gpt and the ID of
\* the row is kept under feedback_row_id; nothing changes when the insert fails
speichere_gpt_feedback_in_supabase(w, ok) ==
    LET id == Cardinality(DOMAIN w.feedback_gpt) + 1
    IN IF ok /\ id <= MaxZeilen
       THEN [w EXCEPT !.feedback_gpt = Put(w.feedback_gpt, id, [evaluiert |-> FALSE]),
                      !.ss = Put(w.ss, "feedback_row_id", id)]
       ELSE w

\* pages/6_Feedback.py, _generiere_feedback; lines 29-79 of pages/6_Feedback_und_Evaluation.py
\* are the same statements.  An exception of the client is not caught and ends the run.
_generiere_feedback(r, t, llm) ==
    IF r.ende \/ Strip(Get(r.w.ss, "final_feedback", <<>>)) # <<>> THEN {r}
    ELSE { IF f.raised THEN [w |-> f.w, ende |-> TRUE, rerun |-> FALSE]
           ELSE [r EXCEPT !.w = [f.w EXCEPT
                                    !.ss = Pop(Put(Put(f.w.ss, "final_feedback", f.text),
                                                   "student_evaluation_done", FALSE),
                                               "feedback_row_id")]] :
           f \in feedback_erzeugen(r.w, t, llm) }

\* _zeige_feedback; a run without feedback text stops before it
_zeige_feedback(r, speichern_ok) ==
    IF r.ende THEN r
    ELSE IF Get(r.w.ss, "final_feedback", <<>>) = <<>> THEN [r EXCEPT !.ende = TRUE]
    ELSE IF is_offline(r.w.ss) \/ Has(r.w.ss, "feedback_row_id") THEN r
    ELSE [r EXCEPT !.w = speichere_gpt_feedback_in_supabase(r.w, speichern_ok)]

fall_geladen(s) == Has(s, "SYSTEM_PROMPT") /\ Has(s, "patient_name")

\* main() of pages/6_Feedback.py
FeedbackLauf(w, t, llm, speichern_ok) ==
    IF ~fall_geladen(w.ss) THEN {w}
    ELSE LET s1 == SetDefault(aktualisiere_diagnostik_zusammenfassung(w.ss),
                              "student_evaluation_done", FALSE)
         IN { _zeige_feedback(g, speichern_ok).w :
                g \in _generiere_feedback(Weiter([w EXCEPT !.ss = s1]), t, llm) }

\* a variant that marks the evaluation as done whether or not a row could be updated
student_feedback_ohne_zeile(r, absenden, update_ok) ==
    IF r.ende \/ Get(r.w.ss, "student_evaluation_done", FALSE) THEN r
    ELSE IF ~absenden \/ is_offline(r.w.ss) THEN r
    ELSE [w |-> [r.w EXCEPT !.ss = Put(r.w.ss, "student_evaluation_done", TRUE)],
          ende |-> TRUE, rerun |-> TRUE]

\* module/feedback_ui.py; absenden: the button "Feedback absenden" was pressed
student_feedback(r, absenden, update_ok) ==
    IF r.ende \/ Get(r.w.ss, "student_evaluation_done", FALSE) THEN r
    ELSE IF ~absenden \/ is_offline(r.w.ss) THEN r
    ELSE IF ~Has(r.w.ss, "feedback_row_id") \/ ~update_ok THEN r
    ELSE [w |-> [r.w EXCEPT
                   !.feedback_gpt = Put(r.w.feedback_gpt, r.w.ss["feedback_row_id"],
                                        [evaluiert |-> TRUE]),
                   !.ss = Put(r.w.ss, "student_evaluation_done", TRUE)],
          ende |-> TRUE, rerun |-> TRUE]

\* the condition under which the pages show the download button
download_freigegeben(s) ==
    Get(s, "final_feedback", <<>>) # <<>> /\ Get(s, "student_evaluation_done", FALSE)

_zeige_downloadbereich(r) ==
    IF r.ende THEN r ELSE [r EXCEPT !.w.download = download_freigegeben(r.w.ss)]

\* one script run of pages/6_Feedback_und_Evaluation.py
FeedbackUndEvaluationEinmal(w, t, llm, speichern_ok, absenden, update_ok) ==
    IF ~fall_geladen(w.ss) THEN {[w |-> w, ende |-> TRUE, rerun |-> FALSE]}
    ELSE
    LET s1 == SetDefault(aktualisiere_diagnostik_zusammenfassung(w.ss),
                         "student_evaluation_done", FALSE)
        r1 == Weiter([w EXCEPT !.ss = s1])
        \* line 40 reads st.session_state.messages, which raises when there are none
        r2 == IF Strip(Get(s1, "final_feedback", <<>>)) = <<>> /\ ~Has(s1, "messages")
              THEN [r1 EXCEPT !.ende = TRUE] ELSE r1
    IN { _zeige_downloadbereich(
             student_feedback(_zeige_feedback(g, speichern_ok), absenden, update_ok)) :
           g \in _generiere_feedback(r2, t, llm) }

FeedbackUndEvaluationLauf(w, t, llm, speichern_ok, absenden, update_ok) ==
    UNION { IF r.rerun
            THEN {x.w : x \in FeedbackUndEvaluationEinmal(r.w, t, llm, speichern_ok, FALSE, FALSE)}
            ELSE {r.w} :
            r \in FeedbackUndEvaluationEinmal(w, t, llm, speichern_ok, absenden, update_ok) }

\* pages/7_Evaluation_und_Download.py
_bereinige_session_state_fuer_neustart(s) ==
    PopAll(reset_fall_session_state(s),
           {"fall_vorbereitung_abgeschlossen", "instruktion_bestätigt", "instruktion_loader_fertig"})

\* one script run of pages/7_Evaluation_und_Download.py; neustart: "Neues Szenario starten"
EvaluationEinmal(w, t, laden_ok, absenden, update_ok, neustart) ==
    IF Strip(Get(w.ss, "final_feedback", <<>>)) = <<>>
    THEN {[w |-> x, ende |-> TRUE, rerun |-> FALSE] : x \in redirect_to_start_page(w, t, laden_ok)}
    ELSE LET r == _zeige_downloadbereich(student_feedback(Weiter(w), absenden, update_ok))
         IN IF r.ende \/ ~neustart THEN {r}
            ELSE {[w |-> x, ende |-> TRUE, rerun |-> FALSE] :
                    x \in StartseiteLauf(
                              [r.w EXCEPT !.ss = _bereinige_session_state_fuer_neustart(r.w.ss),
                                          !.download = FALSE],
                              t, laden_ok)}

EvaluationLauf(w, t, laden_ok, absenden, update_ok, neustart) ==
    UNION { IF r.rerun
            THEN {x.w : x \in EvaluationEinmal(r.w, t, laden_ok, FALSE, FALSE, FALSE)}
            ELSE {r.w} :
            r \in EvaluationEinmal(w, t, laden_ok, absenden, update_ok, neustart) }

\* ---------------------------------------------------------------- admin area
\* pages/20_Impressum.py, the form "Admin-Zugang": a correct password opens pages/21_Admin.py,
\* whose run without any click changes nothing
AdminLoginLauf(w, passwort_korrekt) ==
    IF passwort_korrekt THEN [w EXCEPT !.ss = Put(w.ss, "is_admin", TRUE)] ELSE w

\* pages/21_Admin.py
_restart_application_after_offline(s) ==
    LET s1 == reset_fall_session_state(s)
    IN PopAll(s1, DOMAIN s1 \ {"offline_mode", "is_admin"})

\* the toggle "Offline-Modus aktivieren" was switched
AdminOfflineLauf(w) ==
    LET offline_toggle == ~is_offline(w.ss)
        s1 == Put(w.ss, "offline_mode", offline_toggle)
    IN [w EXCEPT !.ss = IF offline_toggle THEN s1 ELSE _restart_application_after_offline(s1)]

\* the radio "Modus für künftige Feedback-Berechnungen" was set to selected_mode
AdminFeedbackModusLauf(w, selected_mode, t) ==
    LET vorhanden == Get(w.ss, "feedback_mode_override", None)
        current_override == IF _is_valid_mode(vorhanden) THEN vorhanden ELSE None
    IN IF selected_mode = current_override THEN w
       ELSE IF selected_mode = None
       THEN [w EXCEPT !.ss = reset_random_mode(set_mode_override(w.ss, None)),
                      !.fix = clear_feedback_mode_fix(w.fix, t)]
       ELSE [w EXCEPT !.ss = set_mode_override(w.ss, selected_mode),
                      !.fix = IF selected_mode = FEEDBACK_MODE_AMBOSS_CHATGPT
                              THEN set_feedback_mode_fix(w.fix, selected_mode, t)
                              ELSE clear_feedback_mode_fix(w.fix, t)]

\* the button "Adminmodus beenden"
AdminBeendenLauf(w) ==
    AnamneseLauf([w EXCEPT !.ss = Put(w.ss, "is_admin", FALSE)], <<>>, APIFehler)

\* module/fall_config.py
set_fixed_behavior(f, behavior_key, t) == _persist_fixation(f, "behavior", TRUE, behavior_key, 0, t)

\* the scenarios the form "admin_fallauswahl" offers
szenario_options(fall_df) == {fall_df[i].Szenario : i \in DOMAIN fall_df} \ {""}

\* the fixations after "Auswahl übernehmen"
_admin_fixierungen(f, t, szenario, fall_fix_toggle, verhalten, verhalten_fix_toggle) ==
    IF verhalten_fix_toggle
    THEN set_fixed_behavior(IF fall_fix_toggle THEN set_fixed_scenario(f, szenario, t)
                            ELSE clear_fixed_scenario(f, t), verhalten, t)
    ELSE clear_fixed_behavior(IF fall_fix_toggle THEN set_fixed_scenario(f, szenario, t)
                              ELSE clear_fixed_scenario(f, t), t)

\* the selection kept for the next case preparation of this session
_admin_vormerken(s, szenario, fall_fix_toggle) ==
    IF fall_fix_toggle THEN Put(s, "admin_selected_szenario", szenario)
    ELSE Pop(s, "admin_selected_szenario")

\* the form "admin_fallauswahl" was submitted; the run ends on the anamnesis page
AdminFallauswahlLauf(w, t, laden_ok, szenario, fall_fix_toggle, verhalten, verhalten_fix_toggle) ==
    IF szenario \notin szenario_options(lade_fallbeispiele(w.faelle, laden_ok)) THEN {w}
    ELSE UNION { UNION { AnamneseLauf([w EXCEPT !.ss = p.ss, !.fix = p.fix, !.faelle = a.faelle,
                                                !.sent = a.sent, !.mcp = a.mcp], <<>>, APIFehler) :
                           p \in prepare_fall_session_state(
                                     _admin_vormerken(a.ss, szenario, fall_fix_toggle),
                                     _admin_fixierungen(w.fix, t, szenario, fall_fix_toggle,
                                                        verhalten, verhalten_fix_toggle), t) } :
                 a \in fallauswahl_prompt(reset_fall_session_state(w.ss),
                                          IF fall_fix_toggle THEN w.fix
                                          ELSE clear_fixed_scenario(w.fix, t),
                                          w.faelle, lade_fallbeispiele(w.faelle, laden_ok),
                                          IF fall_fix_toggle THEN szenario ELSE None) }

\* the case the form "admin_neues_fallbeispiel" is filled with
NeuerFall == [Szenario |-> "Pneumonie", Amboss_Input |-> <<>>, Alter |-> 30]

\* module/fallverwaltung.py: the table after the insert; Supabase numbers the rows
speichere_fallbeispiel(tab, row, ok) ==
    IF ~ok \/ row.Szenario = "" THEN tab
    ELSE Put(tab, Cardinality(DOMAIN tab) + 1,
             [id |-> Cardinality(DOMAIN tab) + 1, Szenario |-> row.Szenario,
              Amboss_Input |-> row.Amboss_Input, Alter |-> row.Alter])

\* the form "admin_neues_fallbeispiel" was submitted
NeuesFallbeispielLauf(w, ok) ==
    IF ~ok THEN w
    ELSE [w EXCEPT !.faelle = speichere_fallbeispiel(w.faelle, NeuerFall, ok),
                   !.ss = Put(w.ss, "admin_fallformular_offen", FALSE)]

Init ==
    /\ ss = EmptyState
    /\ fix = EmptyState
    /\ faelle = Falltabelle
    /\ feedback_gpt = EmptyState
    /\ now = 0
    /\ sent = <<>>
    /\ mcp = <<>>
    /\ download = FALSE

\* the variables after a script run that ended in w
Uebernimm(w) ==
    /\ ss' = w.ss
    /\ fix' = w.fix
    /\ faelle' = w.faelle
    /\ feedback_gpt' = w.feedback_gpt
    /\ sent' = w.sent
    /\ mcp' = w.mcp
    /\ download' = w.download
    /\ UNCHANGED now

Startseite ==
    \E laden_ok \in BOOLEAN : \E w \in StartseiteLauf(Lauf, now, laden_ok) : Uebernimm(w)

\* a visit of the anamnesis page
Anamnese ==
    \E w \in AnamneseLauf(Lauf, <<>>, APIFehler) : Uebernimm(w)

\* a question sent with the form of the anamnesis page; st.rerun() shows the page again
AnamneseFrage ==
    /\ Has(ss, "SYSTEM_PROMPT") /\ Has(ss, "patient_name")
    /\ user_fragen(ss) < MaxFragen
    /\ \E user_input \in Fragen : \E llm \in GPTAntworten \cup {APIFehler} :
       \E w \in AnamneseLauf(Lauf, user_input, llm) :
       \E w2 \in AnamneseLauf(w, <<>>, APIFehler) : Uebernimm(w2)

\* a visit of the examination page; the report is created without a click
Untersuchung ==
    \E laden_ok \in BOOLEAN : \E llm \in GPTAntworten \cup {APIFehler} :
    \E w \in UntersuchungLauf(Lauf, now, laden_ok, "kein", <<>>, llm, APIFehler) : Uebernimm(w)

\* the button "Untersuchung durchführen", shown after the automatic attempt failed
UntersuchungButton ==
    /\ fall_geladen_untersuchung(ss)
    /\ ~Has(ss, "koerper_befund") /\ fragen_gestellt(ss)
    /\ ~Get(ss, "koerper_befund_generating", FALSE)
    /\ \E llm1, llm2 \in GPTAntworten \cup {APIFehler} :
       \E w \in UntersuchungLauf(Lauf, now, TRUE, "untersuchung", <<>>, llm1, llm2) : Uebernimm(w)

\* the button "Anforderung absenden" with the text of the field above it
Sonderuntersuchung ==
    /\ fall_geladen_untersuchung(ss)
    /\ Has(ss, "koerper_befund")
    /\ ~Get(ss, "sonder_untersuchung_generating", FALSE)
    /\ ~Get(ss, "koerper_befund_generating", FALSE)
    /\ Len(Get(ss, "sonderuntersuchungen", <<>>)) < MaxSonder
    /\ \E sonder_input \in Eingaben : \E llm \in GPTAntworten \cup {APIFehler} :
       \E w \in UntersuchungLauf(Lauf, now, TRUE, "sonder", sonder_input, llm, APIFehler) :
          Uebernimm(w)

\* a visit of the diagnostics page
Diagnostik ==
    \E llm_befund \in GPTAntworten \cup {APIFehler} :
        Uebernimm(DiagnostikLauf(Lauf, "kein", <<>>, <<>>, APIFehler, llm_befund))

\* the form "Eingaben speichern" with differential diagnoses and diagnostic measures
DiagnostikEingabe ==
    /\ Has(ss, "koerper_befund") /\ ~Has(ss, "user_ddx2")
    /\ \E ddx_input2, diag_input2 \in Eingaben : \E llm_sprach, llm_befund \in GPTAntworten \cup {APIFehler} :
        Uebernimm(DiagnostikLauf(Lauf, "form", ddx_input2, diag_input2, llm_sprach, llm_befund))

\* the button "Befunde generieren lassen"
BefundFallback ==
    /\ fallback_sichtbar(ss)
    /\ \E llm_befund \in GPTAntworten \cup {APIFehler} :
        Uebernimm(DiagnostikLauf(Lauf, "fallback", <<>>, <<>>, APIFehler, llm_befund))

\* the button "Weitere Diagnostik anfordern"
WeitereDiagnostik ==
    /\ weitere_diagnostik_sichtbar(ss)
    /\ diagnostik_runden_gesamt(ss) < MaxRunden
    /\ \E llm_befund \in GPTAntworten \cup {APIFehler} :
        Uebernimm(DiagnostikLauf(Lauf, "weitere", <<>>, <<>>, APIFehler, llm_befund))

\* the form "Diagnostik anfordern" of the additional appointment
TerminEingabe ==
    /\ termin_formular_sichtbar(ss)
    /\ \E neue_diagnostik \in Eingaben : \E llm_befund \in GPTAntworten \cup {APIFehler} :
        Uebernimm(DiagnostikLauf(Lauf, "termin", neue_diagnostik, <<>>, APIFehler, llm_befund))

\* a visit of the page for diagnosis and therapy
DiagnoseTherapie ==
    Uebernimm(DiagnoseTherapieLauf(Lauf, FALSE, <<>>, <<>>, APIFehler))

\* the form "Senden" with the final diagnosis and the therapy concept
DiagnoseTherapieEingabe ==
    /\ Has(ss, "befunde") /\ ~diagnose_vollstaendig(ss)
    /\ init_token_counters(ss)["token_sums"].total < MaxTokens
    /\ \E input_diag, input_therapie \in Eingaben : \E llm_sprach \in GPTAntworten \cup {APIFehler} :
        Uebernimm(DiagnoseTherapieLauf(Lauf, TRUE, input_diag, input_therapie, llm_sprach))

\* a visit of pages/6_Feedback.py
Feedback ==
    \E llm \in GPTAntworten \cup {APIFehler} : \E speichern_ok \in BOOLEAN :
    \E w \in FeedbackLauf(Lauf, now, llm, speichern_ok) : Uebernimm(w)

\* a visit of pages/6_Feedback_und_Evaluation.py
FeedbackUndEvaluation ==
    \E llm \in GPTAntworten \cup {APIFehler} : \E speichern_ok \in BOOLEAN :
    \E w \in FeedbackUndEvaluationLauf(Lauf, now, llm, speichern_ok, FALSE, FALSE) : Uebernimm(w)

evaluation_moeglich(s) ==
    /\ Get(s, "final_feedback", <<>>) # <<>>
    /\ ~Get(s, "student_evaluation_done", FALSE)
    /\ ~is_offline(s)

\* the button "Feedback absenden" on pages/6_Feedback_und_Evaluation.py
EvaluationAbsendenFeedbackseite ==
    /\ fall_geladen(ss) /\ evaluation_moeglich(ss)
    /\ \E speichern_ok, update_ok \in BOOLEAN :
       \E w \in FeedbackUndEvaluationLauf(Lauf, now, APIFehler, speichern_ok, TRUE, update_ok) :
          Uebernimm(w)

\* a visit of pages/7_Evaluation_und_Download.py
Evaluation ==
    \E laden_ok \in BOOLEAN :
    \E w \in EvaluationLauf(Lauf, now, laden_ok, FALSE, FALSE, FALSE) : Uebernimm(w)

\* the button "Feedback absenden" on pages/7_Evaluation_und_Download.py
EvaluationAbsenden ==
    /\ Strip(Get(ss, "final_feedback", <<>>)) # <<>> /\ evaluation_moeglich(ss)
    /\ \E update_ok \in BOOLEAN :
       \E w \in EvaluationLauf(Lauf, now, TRUE, TRUE, update_ok, FALSE) : Uebernimm(w)

\* the button "Neues Szenario starten"
NeuesSzenario ==
    /\ Strip(Get(ss, "final_feedback", <<>>)) # <<>>
    /\ \E laden_ok \in BOOLEAN :
       \E w \in EvaluationLauf(Lauf, now, laden_ok, FALSE, FALSE, TRUE) : Uebernimm(w)

AdminLogin ==
    \E passwort_korrekt \in BOOLEAN : Uebernimm(AdminLoginLauf(Lauf, passwort_korrekt))

AdminOffline ==
    /\ Get(ss, "is_admin", FALSE)
    /\ Uebernimm(AdminOfflineLauf(Lauf))

AdminFeedbackModus ==
    /\ Get(ss, "is_admin", FALSE)
    /\ \E selected_mode \in _AVAILABLE_MODES \cup {None} :
          Uebernimm(AdminFeedbackModusLauf(Lauf, selected_mode, now))

AdminBeenden ==
    /\ Get(ss, "is_admin", FALSE)
    /\ \E w \in AdminBeendenLauf(Lauf) : Uebernimm(w)

\* the form "admin_fallauswahl" of pages/21_Admin.py, submitted with "Fall fixieren" on
AdminFallFixieren ==
    /\ Get(ss, "is_admin", FALSE)
    /\ \E szenario \in szenario_options(faelle) :
       \E w \in AdminFallauswahlLauf(Lauf, now, TRUE, szenario, TRUE, "knapp", FALSE) :
          Uebernimm(w)

\* the same form, submitted with "Fall fixieren" off
AdminFallFreigeben ==
    /\ Get(ss, "is_admin", FALSE)
    /\ \E szenario \in szenario_options(faelle) :
       \E w \in AdminFallauswahlLauf(Lauf, now, TRUE, szenario, FALSE, "knapp", FALSE) :
          Uebernimm(w)

\* the form "admin_neues_fallbeispiel" of pages/21_Admin.py
NeuesFallbeispiel ==
    /\ Get(ss, "is_admin", FALSE)
    /\ Cardinality(DOMAIN faelle) < MaxFaelle
    /\ \E ok \in BOOLEAN : Uebernimm(NeuesFallbeispielLauf(Lauf, ok))

\* the admin of another session submits the form "admin_fallauswahl" (the same lines of
\* pages/21_Admin.py, run on the session state of that session): only the shared table of
\* the fixations is followed here
FremdeFallverwaltung ==
    /\ \E fall_fix_toggle \in BOOLEAN : \E szenario \in szenario_options(faelle) :
          fix' = _admin_fixierungen(fix, now, szenario, fall_fix_toggle, "knapp", FALSE)
    /\ sent' = <<>>
    /\ mcp' = <<>>
    /\ download' = FALSE
    /\ UNCHANGED <<ss, faelle, feedback_gpt, now>>

\* the admin of another session changes the feedback mode (the same lines of pages/21_Admin.py,
\* run on the session state of that session): only the shared table changes here
FremdeSitzung ==
    /\ \E selected_mode \in _AVAILABLE_MODES \cup {None} :
          fix' = IF selected_mode = FEEDBACK_MODE_AMBOSS_CHATGPT
                 THEN set_feedback_mode_fix(fix, selected_mode, now)
                 ELSE clear_feedback_mode_fix(fix, now)
    /\ sent' = <<>>
    /\ mcp' = <<>>
    /\ download' = FALSE
    /\ UNCHANGED <<ss, faelle, feedback_gpt, now>>

\* the wall clock advances by one hour; the program reads the clock only to stamp an
\* active fixation, so the clock is followed while one is active
Tick ==
    /\ now < MaxZeit
    /\ \E k \in DOMAIN fix : fix[k].is_active
    /\ now' = now + 1
    /\ sent' = <<>>
    /\ mcp' = <<>>
    /\ download' = FALSE
    /\ UNCHANGED <<ss, fix, faelle, feedback_gpt>>

\* The application is checked in slices.  Every slice starts from the empty session and
\* contains the start page; the other pages of a slice are those that write the session
\* keys its properties are about.

\* anamnesis and examination of a case, its feedback and the next case
Next ==
    \/ Startseite
    \/ Anamnese
    \/ AnamneseFrage
    \/ Untersuchung
    \/ UntersuchungButton
    \/ Feedback
    \/ NeuesSzenario

\* diagnostics and findings of a case, its feedback and the next case
NextDiagnostik ==
    \/ Startseite
    \/ AnamneseFrage
    \/ UntersuchungButton
    \/ DiagnostikEingabe
    \/ BefundFallback
    \/ Feedback
    \/ NeuesSzenario

\* special examinations, further appointments and the final diagnosis
NextTermine ==
    \/ Startseite
    \/ AnamneseFrage
    \/ UntersuchungButton
    \/ Sonderuntersuchung
    \/ Diagnostik
    \/ DiagnostikEingabe
    \/ WeitereDiagnostik
    \/ TerminEingabe
    \/ DiagnoseTherapie
    \/ DiagnoseTherapieEingabe

\* feedback, evaluation and download
NextFeedback ==
    \/ Startseite
    \/ AnamneseFrage
    \/ Feedback
    \/ FeedbackUndEvaluation
    \/ EvaluationAbsendenFeedbackseite
    \/ Evaluation
    \/ EvaluationAbsenden
    \/ NeuesSzenario

\* the feedback mode: its override, its persisted fixation and the clock
NextModus ==
    \/ Startseite
    \/ Feedback
    \/ AdminLogin
    \/ AdminFeedbackModus
    \/ AdminOffline
    \/ FremdeSitzung
    \/ Tick

\* the choice of the case: admin selection, fixation and the case list
NextFall ==
    \/ Startseite
    \/ AdminLogin
    \/ AdminFallFixieren
    \/ AdminFallFreigeben
    \/ FremdeFallverwaltung

\* a case added and fixed while the session works with the case list it loaded earlier
\* (the start page runs when "Neues Szenario starten" switches to it)
NextFixierung ==
    \/ Feedback
    \/ NeuesSzenario
    \/ AdminLogin
    \/ NeuesFallbeispiel
    \/ AdminFallFixieren

\* special examinations and the export of the diagnostics at feedback and download
NextSonder ==
    \/ Startseite
    \/ AnamneseFrage
    \/ UntersuchungButton
    \/ Sonderuntersuchung
    \/ Feedback
    \/ EvaluationAbsenden

\* the additional appointments of a case, its feedback and the next case
NextRunden ==
    \/ Startseite
    \/ AnamneseFrage
    \/ UntersuchungButton
    \/ DiagnostikEingabe
    \/ WeitereDiagnostik
    \/ TerminEingabe
    \/ Feedback
    \/ NeuesSzenario

\* the offline mode
NextOffline ==
    \/ Startseite
    \/ AnamneseFrage
    \/ Feedback
    \/ NeuesSzenario
    \/ AdminLogin
    \/ AdminOffline
    \/ AdminBeenden

Spec == Init /\ [][Next]_vars
SpecDiagnostik == Init /\ [][NextDiagnostik]_vars
SpecTermine == Init /\ [][NextTermine]_vars
SpecFeedback == Init /\ [][NextFeedback]_vars
SpecModus == Init /\ [][NextModus]_vars
SpecOffline == Init /\ [][NextOffline]_vars
SpecFall == Init /\ [][NextFall]_vars
SpecFixierung == Init /\ [][NextFixierung]_vars
SpecSonder == Init /\ [][NextSonder]_vars
SpecRunden == Init /\ [][NextRunden]_vars

\* ------------------------------------------------------------------ properties
\* C1: while offline_mode is true no script run sends a request to the chat-completions
\* API, and no run changes the token sums (a run that starts without token sums leaves
\* at most the zero counters behind).
C1_OfflineOhneAnfrage ==
    [][is_offline(ss) =>
          /\ sent' = <<>>
          /\ Has(ss, "token_sums") /\ Has(ss', "token_sums")
                => ss'["token_sums"] = ss["token_sums"]
          /\ ~Has(ss, "token_sums") /\ Has(ss', "token_sums")
                => ss'["token_sums"].total = 0]_vars

\* the requests of the last script run that ask for the final feedback
FeedbackAnfragen == {i \in DOMAIN sent : sent[i].op = "feedback"}

enthaelt_amboss_abschnitt(prompt) == \E j \in DOMAIN prompt : prompt[j] = AMBOSS_UEBERSCHRIFT

\* C2: a feedback prompt sent to the model contains the section "Zusätzliche
\* Fachinformationen (AMBOSS)" exactly when the mode that determine_feedback_mode returned
\* in that call (it is left under feedback_mode) is Amboss_ChatGPT.
C2_AmbossAbschnitt ==
    \A i \in FeedbackAnfragen :
        enthaelt_amboss_abschnitt(sent[i].prompt)
            <=> ss[SESSION_KEY_EFFECTIVE_MODE] = FEEDBACK_MODE_AMBOSS_CHATGPT

\* a feedback request in the combined mode, with the section in its prompt
C2_Zeuge ==
    \E i \in FeedbackAnfragen :
        /\ enthaelt_amboss_abschnitt(sent[i].prompt)
        /\ ss[SESSION_KEY_EFFECTIVE_MODE] = FEEDBACK_MODE_AMBOSS_CHATGPT

kein_override(s) == ~_is_valid_mode(Get(s, SESSION_KEY_OVERRIDE, None))

fixierung_wirksam(f) ==
    get_feedback_mode_fix_state(f)[1] /\ _is_valid_mode(get_feedback_mode_fix_state(f)[2])

\* the modes the next call of determine_feedback_mode can return
moegliche_modi(s, f, t) == {d.mode : d \in determine_feedback_mode(s, f, t)}

\* C3: in every reachable state a call of determine_feedback_mode returns a valid override
\* and stores it under feedback_mode, whatever the persisted fixation and the session mode
\* are; it returns the persisted mode only without a valid override, and the session mode
\* only when there is neither a valid override nor an effective fixation.
C3_Vorrang ==
    \A d \in determine_feedback_mode(ss, fix, now) :
        /\ d.ss[SESSION_KEY_EFFECTIVE_MODE] = d.mode
        /\ ~kein_override(ss) => d.mode = ss[SESSION_KEY_OVERRIDE]
        /\ kein_override(ss) /\ fixierung_wirksam(fix)
              => d.mode = get_feedback_mode_fix_state(fix)[2]
        /\ kein_override(ss) /\ ~fixierung_wirksam(fix)
              /\ _is_valid_mode(Get(ss, SESSION_KEY_EFFECTIVE_MODE, None))
              => d.mode = ss[SESSION_KEY_EFFECTIVE_MODE]

\* an override for ChatGPT was followed by a script run while the fixation of another
\* session's admin asks for the combined mode
C3_Zeuge ==
    /\ Get(ss, SESSION_KEY_OVERRIDE, None) = FEEDBACK_MODE_CHATGPT
    /\ fixierung_wirksam(fix)
    /\ get_feedback_mode_fix_state(fix)[2] = FEEDBACK_MODE_AMBOSS_CHATGPT
    /\ Get(ss, SESSION_KEY_EFFECTIVE_MODE, None) = FEEDBACK_MODE_CHATGPT
    /\ FeedbackAnfragen # {}

\* C4 as stated: while there is neither an override nor an effective fixation, a mode once
\* stored is what every later call returns (no step of this kind calls reset_random_mode or
\* set_mode_override with an effect).
C4_Urfassung ==
    [][kein_override(ss) /\ ~fixierung_wirksam(fix)
       /\ _is_valid_mode(Get(ss, SESSION_KEY_EFFECTIVE_MODE, None))
       /\ kein_override(ss') /\ ~fixierung_wirksam(fix')
          => moegliche_modi(ss', fix', now') = {ss[SESSION_KEY_EFFECTIVE_MODE]}]_vars

\* the restart of the application by the admin page when the offline mode is switched off
neustart_nach_offline == is_offline(ss) /\ ~is_offline(ss')

\* C4 (amended): while there is neither an override nor an effective fixation, a mode once
\* stored is what every later call returns, unless the admin page restarts the application
\* after the offline mode; and after reset_random_mode the next call draws again, i.e. it
\* can return either mode.
C4_EinmalGelost ==
    [][/\ kein_override(ss) /\ ~fixierung_wirksam(fix)
          /\ _is_valid_mode(Get(ss, SESSION_KEY_EFFECTIVE_MODE, None))
          /\ kein_override(ss') /\ ~fixierung_wirksam(fix')
          /\ ~neustart_nach_offline
             => moegliche_modi(ss', fix', now') = {ss[SESSION_KEY_EFFECTIVE_MODE]}
       /\ kein_override(ss') /\ ~fixierung_wirksam(fix')
             => moegliche_modi(reset_random_mode(ss'), fix', now') = _AVAILABLE_MODES]_vars

\* the drawn mode ChatGPT was returned again by the call of the feedback page
C4_Zeuge ==
    /\ kein_override(ss) /\ ~fixierung_wirksam(fix)
    /\ Get(ss, SESSION_KEY_EFFECTIVE_MODE, None) = FEEDBACK_MODE_CHATGPT
    /\ FeedbackAnfragen # {}

\* the two hours of the persisted fixation, in ticks of the clock
ZweiStunden == 2

\* C5: more than two hours after set_feedback_mode_fix a call without an override no longer
\* takes its mode from the persisted fixation: it returns what it would return without one.
C5_FixierungLaeuftAb ==
    kein_override(ss) /\ fixierung_wirksam(fix)
    /\ now - fix["feedback_mode"].fixed_at > ZweiStunden
       => moegliche_modi(ss, fix, now) = moegliche_modi(ss, clear_feedback_mode_fix(fix, now), now)

\* a script run has generated the final feedback
feedback_generiert ==
    /\ Strip(Get(ss, "final_feedback", <<>>)) = <<>>
    /\ Strip(Get(ss', "final_feedback", <<>>)) # <<>>

\* C6: the final feedback is generated only in a session in which final_diagnose and
\* therapie_vorschlag are both non-empty after stripping.
C6_FeedbackNurMitDiagnose ==
    [][feedback_generiert => diagnose_vollstaendig(ss)]_vars

evaluation_abgeschlossen(s) == Get(s, "student_evaluation_done", FALSE)

\* C9: the download is offered only with a non-empty final feedback and a finished
\* evaluation; the evaluation becomes finished only in a run that has written it to the row
\* of feedback_gpt named by feedback_row_id; and a run that generates a new feedback leaves
\* the evaluation unfinished and no feedback_row_id of an older row.
C9_DownloadNachEvaluation ==
    [][/\ download' => /\ Get(ss', "final_feedback", <<>>) # <<>>
                       /\ evaluation_abgeschlossen(ss')
       /\ ~evaluation_abgeschlossen(ss) /\ evaluation_abgeschlossen(ss')
             => /\ Has(ss', "feedback_row_id")
                /\ ss'["feedback_row_id"] \in DOMAIN feedback_gpt'
                /\ feedback_gpt'[ss'["feedback_row_id"]].evaluiert
                /\ Has(ss, "feedback_row_id") => ss'["feedback_row_id"] = ss["feedback_row_id"]
       /\ feedback_generiert
             => /\ ~evaluation_abgeschlossen(ss')
                /\ Has(ss', "feedback_row_id")
                      => ss'["feedback_row_id"] \notin DOMAIN feedback_gpt]_vars

\* the download is offered after the evaluation was written to the row of the feedback
C9_Zeuge ==
    /\ download
    /\ evaluation_abgeschlossen(ss)
    /\ Has(ss, "feedback_row_id")
    /\ feedback_gpt[ss["feedback_row_id"]].evaluiert

\* C7: whenever koerper_befund is present, messages holds at least one message of the user.
C7_BefundNachFrage ==
    Has(ss, "koerper_befund") => fragen_gestellt(ss)

\* the examination report of a case whose anamnesis asked MaxFragen questions
C7_Zeuge ==
    /\ Has(ss, "koerper_befund")
    /\ user_fragen(ss) = MaxFragen
    /\ Has(ss, "untersuchung_done")

\* C8: befunde is first written only in a session that holds koerper_befund and, after
\* stripping, non-empty user_ddx2 and user_diagnostics; and the diagnosis page writes
\* final_diagnose and therapie_vorschlag only in a session that holds befunde.
C8_BefundeNachEingaben ==
    [][/\ ~Has(ss, "befunde") /\ Has(ss', "befunde")
             => /\ Has(ss', "koerper_befund")
                /\ Strip(Get(ss', "user_ddx2", <<>>)) # <<>>
                /\ Strip(Get(ss', "user_diagnostics", <<>>)) # <<>>
       /\ (\/ /\ Has(ss', "therapie_vorschlag")
              /\ ~Has(ss, "therapie_vorschlag") \/ ss["therapie_vorschlag"] # ss'["therapie_vorschlag"]
           \/ /\ Get(ss', "final_diagnose", <<>>) # <<>>
              /\ Get(ss, "final_diagnose", <<>>) # ss'["final_diagnose"])
          => Has(ss, "befunde")]_vars

\* the texts and flags of a case that the claim lists
Fallreste ==
    {"messages", "koerper_befund", "koerper_befund_basis", "sonderuntersuchungen",
     "sonderdiagnostik_text", "user_ddx2", "user_diagnostics", "befunde", "diagnostik_eingaben",
     "diagnostik_eingaben_basis", "gpt_befunde", "diagnostik_eingaben_kumuliert",
     "gpt_befunde_kumuliert", "befund_generierungsfehler", "final_diagnose",
     "therapie_vorschlag", "final_feedback", "amboss_result", "amboss_payload_summary"}
    \cup MitPraefix

\* C10: when "Neues Szenario starten" is offered, the session state that
\* _bereinige_session_state_fuer_neustart leaves behind holds none of the texts of the
\* case (an empty text counts as none), and befund_generierung_gescheitert is not set.
C10_KeinRest ==
    Strip(Get(ss, "final_feedback", <<>>)) # <<>>
       => LET s == _bereinige_session_state_fuer_neustart(ss)
          IN /\ \A k \in Fallreste : Has(s, k) => s[k] = <<>>
             /\ ~Get(s, "befund_generierung_gescheitert", FALSE)

\* the session states in which the loader callback of the start page selects a case: the
\* session as it is while no preparation is finished, and the session that
\* "Neues Szenario starten" hands to the start page
Vorbereitungszustaende ==
    (IF Get(ss, "fall_vorbereitung_abgeschlossen", FALSE) THEN {} ELSE {ss})
    \cup (IF Strip(Get(ss, "final_feedback", <<>>)) # <<>>
          THEN {_bereinige_session_state_fuer_neustart(ss)} ELSE {})

\* the scenarios of the case list the preparation works with
szenarien_der_liste(s, laden_ok) ==
    IF Has(s, "fallliste_df")
    THEN {s["fallliste_df"][i].Szenario : i \in DOMAIN s["fallliste_df"]}
    ELSE {lade_fallbeispiele(faelle, laden_ok)[i].Szenario :
             i \in DOMAIN lade_fallbeispiele(faelle, laden_ok)}

\* the scenarios the session can hold after the preparation (None: no scenario)
gewaehlte_szenarien(s, laden_ok) ==
    {Get(r.ss, "diagnose_szenario", None) :
        r \in fuehre_fall_vorbereitung_durch(s, fix, faelle, now, laden_ok)}

\* the fixation names a scenario of the list
fixierung_nutzbar(namen) == get_fall_fix_state(fix)[1] /\ get_fall_fix_state(fix)[2] \in namen

\* the priority of one preparation that starts in the session s with a non-empty list
vorrang_der_fallauswahl(s, namen, admin, gewaehlt) ==
    /\ \A laden_ok \in BOOLEAN :
       \A r \in fuehre_fall_vorbereitung_durch(s, fix, faelle, now, laden_ok) :
          szenarien_der_liste(s, laden_ok) # {} => ~Has(r.ss, "admin_selected_szenario")
    /\ admin \in namen => gewaehlt = {admin}
    /\ admin # "" /\ admin \notin namen => gewaehlt = {Get(s, "diagnose_szenario", None)}
    /\ admin = "" /\ fixierung_nutzbar(namen) => gewaehlt = {get_fall_fix_state(fix)[2]}
    /\ admin = "" /\ ~fixierung_nutzbar(namen) /\ Has(s, "diagnose_szenario")
          => gewaehlt = {s["diagnose_szenario"]}
    /\ admin = "" /\ ~fixierung_nutzbar(namen) /\ ~Has(s, "diagnose_szenario")
          => gewaehlt = namen

C13_FallVollstaendig ==
    Get(ss, "fall_vorbereitung_abgeschlossen", FALSE)
       => {"diagnose_szenario", "SYSTEM_PROMPT", "patient_name", "patient_age", "patient_job"}
             \subseteq DOMAIN ss

\* the rows a selection can take the scenario szenario from: the case list the session
\* holds and the table it was loaded from
zeilen_zum_szenario(s, szenario) ==
    {faelle[i] : i \in {j \in DOMAIN faelle : faelle[j].Szenario = szenario}}
    \cup (IF Has(s, "fallliste_df")
          THEN {s["fallliste_df"][i] :
                   i \in {j \in DOMAIN s["fallliste_df"] : s["fallliste_df"][j].Szenario = szenario}}
          ELSE {})

\* C14: while the persisted fetch mode is not 'always' (no persisted setting included), a run
\* sends an MCP query only for a scenario whose row holds no stored Amboss_Input, and a
\* newly selected scenario whose row holds one gets it as amboss_payload_summary.
C14_AbrufNurOhneVorrat ==
    [][get_amboss_fetch_preferences(fix)[1] # AMBOSS_FETCH_ALWAYS
         => /\ \A i \in DOMAIN mcp' :
                   \E fall \in zeilen_zum_szenario(ss', mcp'[i]) : _extract_amboss_input(fall) = <<>>
            /\ (/\ Has(ss', "diagnose_szenario")
                /\ Get(ss, "diagnose_szenario", None) # ss'["diagnose_szenario"]
                /\ \A fall \in zeilen_zum_szenario(ss', ss'["diagnose_szenario"]) :
                       _extract_amboss_input(fall) # <<>>)
               => \E fall \in zeilen_zum_szenario(ss', ss'["diagnose_szenario"]) :
                      Get(ss', "amboss_payload_summary", <<>>) = _extract_amboss_input(fall)]_vars

\* the text teil occurs in the text t
enthaelt(t, teil) ==
    \E i \in 0..(Len(t) - Len(teil)) : SubSeq(t, i + 1, i + Len(teil)) = teil

\* the diagnostics export of the session s holds the section of every special examination
sonderuntersuchungen_im_export(s) ==
    \A i \in DOMAIN Get(s, "sonderuntersuchungen", <<>>) :
        enthaelt(Get(s, "diagnostik_eingaben_kumuliert", <<>>),
                 Sonderabschnitt(i, s["sonderuntersuchungen"][i]))

\* C15: in the run that generates the final feedback and in every run that offers the
\* download, diagnostik_eingaben_kumuliert holds request and result of every entry of
\* sonderuntersuchungen.
C15_SonderImExport ==
    [][(\/ /\ Strip(Get(ss, "final_feedback", <<>>)) = <<>>
           /\ Strip(Get(ss', "final_feedback", <<>>)) # <<>>
        \/ download')
       => sonderuntersuchungen_im_export(ss')]_vars

\* request and findings of the round i are stored in the session s
runde_gespeichert(s, i) ==
    Has(s, RundenKey("diagnostik_runde_", i)) /\ Has(s, RundenKey("befunde_runde_", i))

\* C16: request and findings are stored for every round from 2 to diagnostik_runden_gesamt;
\* a step that stores the findings of a further round stores its request too, raises
\* diagnostik_runden_gesamt by exactly one to that round and leaves diagnostik_aktiv false;
\* the counter rises in no other way, in particular not when the findings fail.
C16_RundenBuchfuehrung ==
    [][/\ \A i \in 2..diagnostik_runden_gesamt(ss') : runde_gespeichert(ss', i)
       /\ \A i \in 2..(MaxRunden + 1) :
              ~Has(ss, RundenKey("befunde_runde_", i)) /\ Has(ss', RundenKey("befunde_runde_", i))
              => /\ runde_gespeichert(ss', i)
                 /\ i = diagnostik_runden_gesamt(ss) + 1
                 /\ diagnostik_runden_gesamt(ss') = i
                 /\ ~Get(ss', "diagnostik_aktiv", FALSE)
       /\ diagnostik_runden_gesamt(ss') > diagnostik_runden_gesamt(ss)
              => /\ diagnostik_runden_gesamt(ss') = diagnostik_runden_gesamt(ss) + 1
                 /\ ~Has(ss, RundenKey("befunde_runde_", diagnostik_runden_gesamt(ss')))]_vars

\* a second appointment was requested and completed
C16_Zeuge ==
    /\ diagnostik_runden_gesamt(ss) = 2 /\ runde_gespeichert(ss, 2)
    /\ ~Get(ss, "diagnostik_aktiv", FALSE)

\* the positions of the headings '### Termin' in the text t and the number a heading names
ueberschriften(t) == {p \in 1..(Len(t) - 1) : t[p] = "### Termin"}

termin_nummer(t, p) ==
    IF \E i \in 1..(MaxRunden + 2) : ToString(i) = t[p + 1]
    THEN CHOOSE i \in 1..(MaxRunden + 2) : ToString(i) = t[p + 1]
    ELSE 0

\* the rounds a summary of the session s has to show: the first one when there is data of
\* the first round, and the stored non-empty rounds up to diagnostik_runden_gesamt
erwartete_termine(s, prefix) ==
    (IF Get(s, "user_diagnostics", <<>>) # <<>> \/ Get(s, "befunde", <<>>) # <<>>
     THEN {1} ELSE {})
    \cup {i \in 2..diagnostik_runden_gesamt(s) : Get(s, RundenKey(prefix, i), <<>>) # <<>>}

\* the text t is a summary of the session s: headings in strictly ascending order, one for
\* each round to show and for no other, each followed by the text of its round
ist_zusammenfassung(t, s, prefix, erster) ==
    /\ \A p, q \in ueberschriften(t) : p < q => termin_nummer(t, p) < termin_nummer(t, q)
    /\ {termin_nummer(t, p) : p \in ueberschriften(t)} = erwartete_termine(s, prefix)
    /\ \A i \in erwartete_termine(s, prefix) :
           enthaelt(t, RStrip(Termin(i) \o (IF i = 1 THEN Get(s, erster, <<>>)
                                            ELSE s[RundenKey(prefix, i)])))

\* C17: the summaries aktualisiere_diagnostik_zusammenfassung builds from a session, and
\* the one the diagnostics page builds for new first findings, consist of 'Termin i'
\* sections in strictly ascending order: Termin 1 when there is data of the first round,
\* every stored non-empty round from 2 to diagnostik_runden_gesamt once, and no other round.
C17_Zusammenfassung ==
    /\ ist_zusammenfassung(
           aktualisiere_diagnostik_zusammenfassung(ss)["diagnostik_eingaben_kumuliert"],
           ss, "diagnostik_runde_", "user_diagnostics")
    /\ ist_zusammenfassung(
           aktualisiere_diagnostik_zusammenfassung(ss)["gpt_befunde_kumuliert"],
           ss, "befunde_runde_", "befunde")
    /\ \A neuer_befund \in GPTAntworten :
           ist_zusammenfassung(
               aktualisiere_kumulative_befunde_page(ss, neuer_befund)["gpt_befunde_kumuliert"],
               Put(ss, "befunde", neuer_befund), "befunde_runde_", "befunde")

\* two appointments are stored, and the summary of the requests shows both
C17_Zeuge ==
    /\ Get(ss, "user_diagnostics", <<>>) # <<>> /\ Get(ss, "befunde", <<>>) # <<>>
    /\ diagnostik_runden_gesamt(ss) = 2 /\ runde_gespeichert(ss, 2)
    /\ Cardinality(ueberschriften(
           aktualisiere_diagnostik_zusammenfassung(ss)["diagnostik_eingaben_kumuliert"])) = 2

====
